---- MODULE Spec2Model ----
(***************************************************************************)
(* PEIT Map Creator: the remote layer query engine.                        *)
(*                                                                         *)
(* process_all_layers (core/layer_processor.py) walks the configured       *)
(* layers and calls query_arcgis_layer (core/arcgis_query.py) for each     *)
(* enabled one.  Every network request of a layer query (polygon request,  *)
(* envelope request, metadata fetch, pagination page) is one action whose  *)
(* response is drawn from a small set; the code that runs between two      *)
(* requests is part of the action of the request that precedes it.         *)
(***************************************************************************)
EXTENDS FiniteSets, Integers, Sequences, TLC

\* ------------------------------------------------------------------ bounds
MaxIterations == 2    \* largest pagination_max_iterations drawn
MaxDelay == 1         \* longest a page request takes, in budget units
MaxTimeout == 1       \* pagination_total_timeout of the run, same units

\* ----------------------------------------------------------- representation
\* A Python None in a string-valued slot, and an absent / None value in a
\* slot holding a number, a record or a list (Some(x) when it is there).
None == "None"
Absent == <<>>
Some(x) == <<x>>

\* A server feature is one of four kinds, by what the client does with it.
FeatureKinds == {"inside", "outside", "no_geometry", "touching"}

\* The feature lists of a response: none, one feature of each kind, and one
\* list with every kind in it.
FeatureLists ==
    {<<>>, <<"inside">>, <<"outside">>, <<"no_geometry">>, <<"touching">>,
     <<"outside", "touching", "no_geometry", "inside">>}

\* convert_esri_to_geojson returns None for a feature without geometry.
ConvertEsriToGeojson(f) == IF f = "no_geometry" THEN Absent ELSE Some(f)

\* gdf.intersects(polygon_geometry): the precise client-side test.
Intersects(f) == f \in {"inside", "touching"}

\* A geometry that only touches the area clips to an empty geometry.
ClipsToEmpty(f) == f = "touching"

\* ------------------------------------------------------- server responses
\* Body of a POST .../query: a JSON object with features, one with an error
\* object, one whose "error" member is not an object, a JSON null, or no
\* body at all (timeout; connection, HTTP or JSON decoding error, all of
\* them requests.exceptions.RequestException).
FailureKinds == {"esri_error", "error_not_object", "json_null",
                 "timeout", "request_error"}
QueryResponses ==
    [kind : {"ok"}, features : FeatureLists, exceededTransferLimit : BOOLEAN]
    \cup [kind : FailureKinds, features : {<<>>},
          exceededTransferLimit : {FALSE}]

\* The answers to a page request: fewer feature lists, every kind of feature.
PageResponses ==
    {r \in QueryResponses :
        r.features \in {<<>>, <<"no_geometry">>,
                        <<"outside", "touching", "no_geometry", "inside">>}}

\* The fields array of the layer's metadata document.
OidField == [name |-> "OBJECTID_1", type |-> "esriFieldTypeOID"]
UnnamedOidField == [name |-> "", type |-> "esriFieldTypeOID"]
FidField == [name |-> "FID", type |-> "esriFieldTypeInteger"]
NameField == [name |-> "NAME", type |-> "esriFieldTypeString"]
FieldLists == {<<>>, <<NameField>>, <<NameField, OidField>>,
               <<UnnamedOidField, FidField>>, <<UnnamedOidField>>}
MetadataResponses ==
    [kind : {"ok"}, supportsPagination : BOOLEAN, fields : FieldLists]
    \cup [kind : {"esri_error", "json_null", "timeout", "request_error"},
          supportsPagination : {FALSE}, fields : {<<>>}]

\* The answers of a run that queries several layers.
FewQueryResponses ==
    {r \in QueryResponses :
        /\ r.kind \in {"ok", "timeout"}
        /\ r.features \in {<<>>, <<"inside">>}}
FewMetadataResponses ==
    {m \in MetadataResponses :
        /\ m.kind \in {"ok", "timeout"}
        /\ m.fields \in {<<>>, <<NameField, OidField>>}
        /\ m.kind = "ok" => m.fields # <<>>}

\* ------------------------------------------------------------------ state
VARIABLES
    cfg,        \* settings and query plan of the run, fixed after Init
    li,         \* index in layers_to_process of the next layer of the loop
    fr,         \* the running query_arcgis_layer call (pc = "idle": none)
    tw,         \* shadow call: same layer, same answers, envelope strategy
    results,    \* layer name -> feature list, the layers with a GeoDataFrame
    metadata,   \* layer name -> metadata dict
    summary,    \* the query summary, Absent until the loop has ended
    plan,       \* the query-strategy planner at work on one input area
    clip,       \* _clip_per_feature at work on the features of one layer
    agg,        \* the run-level aggregation of a list of layer metadata
    norm,       \* the input geometry pipeline at work on one input file
    task,       \* process_file_task at work on one uploaded file
    jobs,       \* the event streams of the jobs of one IP and their slots
    quota,      \* /api/process requests on their way through the checks
    stream      \* one job's event stream next to its task's progress file

\* The query loop, and the parts of the program followed apart from it.
run == <<cfg, li, fr, tw, results, metadata, summary>>
units == <<plan, clip, agg, norm>>
services == <<task, jobs, quota, stream>>

vars == <<run, units, services>>

\* None of the web service's parts is followed.
NoServices == task = Absent /\ jobs = Absent /\ quota = Absent /\ stream = Absent

\* ---------------------------------------------------------- configuration
\* One entry of config['layers'], as far as process_all_layers reads it.
\* states is Absent for a layer without a 'states' key, else what the
\* configuration gives: a list of state names, or one name outside a list.
LayerConfig(name, enabled, geometry_type, states) ==
    [name |-> name, enabled |-> enabled, geometry_type |-> geometry_type,
     states |-> states]

\* The layer lists a run is configured with: every geometry type is queried,
\* and a disabled layer stands before, between and after enabled ones.
ConfigLayerLists ==
    {<<LayerConfig(1, TRUE, "polygon", Absent), LayerConfig(2, FALSE, "line", Absent),
       LayerConfig(3, TRUE, "point", Absent)>>,
     <<LayerConfig(1, FALSE, "point", Absent), LayerConfig(2, TRUE, "line", Absent),
       LayerConfig(3, FALSE, "polygon", Absent)>>,
     <<LayerConfig(1, TRUE, "point", Absent)>>}

StateList(names) == Some([is_list |-> TRUE, names |-> names])
StateName(name) == Some([is_list |-> FALSE, names |-> <<name>>])

\* The states of a layer as filter_layers_by_state reads them: the list as
\* a set, or the set of the one name.
LayerStateSet(layer_states) ==
    IF layer_states.is_list
        THEN {layer_states.names[i] : i \in DOMAIN layer_states.names}
        ELSE {layer_states.names[1]}

\* The layer stays in the list: it names no states or one of them matches.
StateIncluded(layer, intersecting_states) ==
    \/ layer.states = Absent
    \/ LayerStateSet(layer.states[1]) \cap intersecting_states # {}

\* filter_layers_by_state that also drops the layers naming no states.
FilterLayersByStateDropsUnnamed(layer_list, intersecting_states) ==
    IF intersecting_states = {}
        THEN [filtered_layers |-> layer_list, skipped_count |-> 0]
    ELSE LET filtered_layers ==
                 SelectSeq(layer_list,
                           LAMBDA l : l.states # Absent
                                      /\ StateIncluded(l, intersecting_states))
             skipped_layers ==
                 SelectSeq(layer_list,
                           LAMBDA l : ~StateIncluded(l, intersecting_states))
         IN  [filtered_layers |-> filtered_layers,
              skipped_count |-> Len(skipped_layers)]

\* filter_layers_by_state(layers, intersecting_states).
FilterLayersByState(layer_list, intersecting_states) ==
    IF intersecting_states = {}
        THEN [filtered_layers |-> layer_list, skipped_count |-> 0]
    ELSE LET filtered_layers ==
                 SelectSeq(layer_list,
                           LAMBDA l : StateIncluded(l, intersecting_states))
             skipped_layers ==
                 SelectSeq(layer_list,
                           LAMBDA l : ~StateIncluded(l, intersecting_states))
         IN  [filtered_layers |-> filtered_layers,
              skipped_count |-> Len(skipped_layers)]

\* The state filter of process_all_layers: the layers the loop walks and
\* the number left out, added to the settings c of the run.
WithStateFilter(c) ==
    LET filtered ==
            IF c.state_filter_enabled /\ c.intersecting_states # {}
                THEN FilterLayersByState(c.layers, c.intersecting_states)
                ELSE [filtered_layers |-> c.layers, skipped_count |-> 0]
    IN  c @@ [layers_to_process |-> filtered.filtered_layers,
              skipped_count |-> filtered.skipped_count]

\* The state_filter statistics process_all_layers reports at its end.
StateFilterStatistics(c) ==
    [enabled |-> c.state_filter_enabled,
     intersecting_states |-> c.intersecting_states,
     total_layers |-> Len(c.layers),
     layers_after_filter |-> Len(c.layers_to_process),
     layers_skipped |-> c.skipped_count]

EnabledLayers(layer_list) ==
    {i \in DOMAIN layer_list : layer_list[i].enabled}

\* polygon_query_metadata as process_all_layers fills it for a polygon plan.
PolygonQueryMetadatas ==
    {[query_vertices |-> 4, simplification_applied |-> FALSE, original_vertices |-> 4],
     [query_vertices |-> 4, simplification_applied |-> TRUE, original_vertices |-> 6]}

\* The settings process_all_layers reads and the plan it computes before the
\* loop.  esri_polygon_json is set exactly when the polygon strategy was
\* chosen.  With pagination disabled pagination_max_iterations is never
\* read, so one value stands for all.  The time budget is MaxTimeout and a
\* page takes 0..MaxDelay of it.  remote says what the services of the
\* run may answer: anything when one layer is queried, the answers of
\* FewQueryResponses and FewMetadataResponses when several are, which keeps
\* the product of the layers' outcomes small.  No state is detected in
\* these runs, so the loop walks every configured layer.
RunConfigs ==
  {WithStateFilter(s) : s \in
    {c \in [layers : ConfigLayerLists,
            state_filter_enabled : {TRUE},
            intersecting_states : {{}},
            use_polygon_query : BOOLEAN,
            esri_polygon_json : {None, "rings"},
            polygon_query_metadata : {Absent} \cup {Some(m) : m \in PolygonQueryMetadatas},
            pagination_enabled : BOOLEAN,
            pagination_max_iterations : 0..MaxIterations,
            pagination_total_timeout : {MaxTimeout},
            clip_boundary : {None, "boundary"},
            remote : {"any", "few"}] :
        /\ c.remote = "few" <=> Cardinality(EnabledLayers(c.layers)) > 1
        /\ c.use_polygon_query <=> c.esri_polygon_json # None
        /\ c.use_polygon_query <=> c.polygon_query_metadata # Absent
        /\ c.pagination_enabled \/ c.pagination_max_iterations = MaxIterations}}

\* What GeoDataFrame.from_features([], crs=...) does depends on the installed
\* geopandas: it raises ValueError (no geometry column to carry the CRS) or
\* hands back an empty frame.
FromFeaturesEmpty == {"raises", "empty_frame"}

\* ------------------------------------------------------- query_arcgis_layer
\* The metadata dict at the top of query_arcgis_layer.  A key the code adds
\* later is Absent / None / FALSE until then; query_time is left out.
InitMetadata(layer_name) ==
    [layer_name |-> layer_name,
     feature_count |-> 0,
     warning |-> None,
     error |-> None,
     query_method |-> "envelope",
     query_vertices |-> Absent,
     simplification_applied |-> Absent,
     original_vertices |-> Absent,
     query_fallback_reason |-> None,
     server_count |-> Absent,
     filtered_count |-> Absent,
     results_incomplete |-> FALSE,
     incomplete_reason |-> None,
     pagination |-> Absent,
     clipping |-> Absent]

\* The locals of paginated_query before its loop.  result is "unbound" until
\* a page has been parsed, then the page's exceededTransferLimit.
InitPagination ==
    [iteration |-> 0, elapsed |-> 0, all_features |-> <<>>,
     stopped_reason |-> None, exceeded_limit_final |-> FALSE,
     result |-> "unbound"]

\* No call is running.
IdleFrame ==
    [pc |-> "idle", use_polygon_query |-> FALSE, geometry_type |-> None,
     metadata |-> InitMetadata(0), all_esri_features |-> <<>>,
     pg |-> InitPagination, gdf |-> Absent,
     raised |-> None, log |-> <<>>]

\* NewFrame of a loop that works out the strategy again for each layer and
\* uses the polygon only for the first.
NewFrameOwnStrategy(layer_name, geometry_type, use_polygon_query) ==
    [IdleFrame EXCEPT
        !.pc = IF use_polygon_query /\ layer_name = 1 /\ cfg.esri_polygon_json # None
               THEN "polygon_attempt" ELSE "envelope_attempt",
        !.use_polygon_query = use_polygon_query /\ layer_name = 1,
        !.geometry_type = geometry_type,
        !.metadata = InitMetadata(layer_name)]

\* A call of query_arcgis_layer up to its first request: the polygon request
\* when use_polygon_query and esri_polygon_json, the envelope request if not.
NewFrame(layer_name, geometry_type, use_polygon_query) ==
    [IdleFrame EXCEPT
        !.pc = IF use_polygon_query /\ cfg.esri_polygon_json # None
               THEN "polygon_attempt" ELSE "envelope_attempt",
        !.use_polygon_query = use_polygon_query,
        !.geometry_type = geometry_type,
        !.metadata = InitMetadata(layer_name)]

\* The request log of the call (not program state): what was asked and what
\* came back.  A metadata fetch is logged by what it said (MetadataOutcome).
Logged(f, req, kind, r) ==
    [f EXCEPT !.log = Append(@, [req |-> req, kind |-> kind,
                                 more |-> r.exceededTransferLimit,
                                 features |-> r.features])]

\* The call returns (gdf, metadata); the locals of paginated_query are gone.
Return(f, gdf) ==
    [f EXCEPT !.pc = "returned", !.gdf = gdf, !.pg = InitPagination]

\* ErrorReturn with a handler that logs the error and forgets to record it.
ErrorReturnUnrecorded(f, error_msg, exception) ==
    Return([f EXCEPT !.raised = exception, !.all_esri_features = <<>>], Absent)

\* The two outer except clauses: error recorded, None returned.
ErrorReturn(f, error_msg, exception) ==
    Return([f EXCEPT !.metadata.error = error_msg, !.raised = exception,
                     !.all_esri_features = <<>>], Absent)

\* "No intersecting features found": None and the metadata as it stands.
ReturnNone(f) == Return(f, Absent)

\* The features a list comprehension keeps.
Converted(esri_features) ==
    SelectSeq(esri_features, LAMBDA f : ConvertEsriToGeojson(f) # Absent)

ClientFilter(gdf) == SelectSeq(gdf, Intersects)

\* clip_geodataframe, as far as the query reads it: the features whose
\* clipped geometry is not empty, and the statistics of the clip.
ClipGeodataframe(gdf) ==
    LET kept == SelectSeq(gdf, LAMBDA f : ~ClipsToEmpty(f))
    IN [gdf |-> kept,
        clip_metadata |-> [empty_geometries_removed |-> Len(gdf) - Len(kept),
                           clip_failures |-> 0]]

\* BuildResult that clips whatever the geometry type of the layer.
BuildResultClipsAnyType(f, lib) ==
    LET features == Converted(f.all_esri_features)
        initial_count == Len(features)
        filtered == ClientFilter(features)
        clips == cfg.clip_boundary # None /\ Len(filtered) > 0
        clipped == ClipGeodataframe(filtered)
        gdf == IF clips THEN clipped.gdf ELSE filtered
    IN IF features = <<>> /\ lib = "raises"
       THEN ErrorReturn(f, "Unexpected error", "ValueError")
       ELSE Return([f EXCEPT
                !.metadata.server_count = Some(initial_count),
                !.metadata.filtered_count = Some(initial_count - Len(filtered)),
                !.metadata.clipping =
                    IF clips THEN Some(clipped.clip_metadata) ELSE Absent,
                !.metadata.feature_count = Len(gdf)],
            Some(gdf))

\* Conversion, client-side filter and clipping, up to the return.
BuildResult(f, lib) ==
    LET features == Converted(f.all_esri_features)
        initial_count == Len(features)
        filtered == ClientFilter(features)
        clips == /\ cfg.clip_boundary # None
                 /\ f.geometry_type \in {"line", "polygon"}
                 /\ Len(filtered) > 0
        clipped == ClipGeodataframe(filtered)
        gdf == IF clips THEN clipped.gdf ELSE filtered
    IN IF features = <<>> /\ lib = "raises"
       THEN ErrorReturn(f, "Unexpected error", "ValueError")
       ELSE Return([f EXCEPT
                !.metadata.server_count = Some(initial_count),
                !.metadata.filtered_count = Some(initial_count - Len(filtered)),
                !.metadata.clipping =
                    IF clips THEN Some(clipped.clip_metadata) ELSE Absent,
                !.metadata.feature_count = Len(gdf)],
            Some(gdf))

\* results_incomplete and its reason, as every branch that sets them does.
MarkIncomplete(f, reason) ==
    [f EXCEPT !.metadata.results_incomplete = TRUE,
              !.metadata.incomplete_reason = reason]

\* query_arcgis_layer once paginated_query has returned.
AfterPagination(f, lib) ==
    LET exceeded_limit == f.pg.exceeded_limit_final
        stored == [f EXCEPT
            !.all_esri_features = f.pg.all_features,
            !.metadata.pagination =
                Some([used |-> TRUE, supports_pagination |-> TRUE,
                      pages_fetched |-> f.pg.iteration,
                      stopped_reason |-> f.pg.stopped_reason])]
    IN IF f.pg.stopped_reason # None
       THEN BuildResult(MarkIncomplete(stored, f.pg.stopped_reason), lib)
       ELSE IF exceeded_limit
            THEN BuildResult(MarkIncomplete(stored, "exceeded_limit"), lib)
            ELSE BuildResult(stored, lib)

\* paginated_query after its loop: the max_iterations check reads result,
\* which no statement has bound when the loop body never parsed a page.
AfterLoop(f, lib) ==
    IF f.pg.iteration >= cfg.pagination_max_iterations
    THEN IF f.pg.result = "unbound"
         THEN ErrorReturn(f, "Unexpected error", "UnboundLocalError")
         ELSE IF f.pg.result = "True"
              THEN AfterPagination([f EXCEPT !.pg.stopped_reason = "max_iterations",
                                             !.pg.exceeded_limit_final = TRUE], lib)
              ELSE AfterPagination(f, lib)
    ELSE AfterPagination(f, lib)

\* LoopHead of a loop that starts over when it has used up its iterations.
LoopHeadStartsOver(f, lib) ==
    IF f.pg.iteration < cfg.pagination_max_iterations
    THEN IF f.pg.elapsed >= cfg.pagination_total_timeout
         THEN AfterLoop([f EXCEPT !.pg.stopped_reason = "timeout"], lib)
         ELSE [f EXCEPT !.pc = "paging"]
    ELSE [f EXCEPT !.pc = "paging", !.pg = InitPagination,
                   !.log = SelectSeq(f.log, LAMBDA e : e.req # "page")]

\* The head of the while loop, up to the next page request.
LoopHead(f, lib) ==
    IF f.pg.iteration < cfg.pagination_max_iterations
    THEN IF f.pg.elapsed >= cfg.pagination_total_timeout
         THEN AfterLoop([f EXCEPT !.pg.stopped_reason = "timeout"], lib)
         ELSE [f EXCEPT !.pc = "paging"]
    ELSE AfterLoop(f, lib)

\* One page request that took delay, and what the loop does with the answer.
OnPage(f0, r, delay, lib) ==
    LET f == [Logged(f0, "page", r.kind, r) EXCEPT !.pg.elapsed = @ + delay]
    IN CASE r.kind = "ok" ->
            LET g == [f EXCEPT
                    !.pg.all_features = @ \o r.features,
                    !.pg.iteration = @ + 1,
                    !.pg.result = IF r.exceededTransferLimit THEN "True" ELSE "False"]
            IN IF r.exceededTransferLimit THEN LoopHead(g, lib) ELSE AfterLoop(g, lib)
         [] r.kind = "esri_error" ->
            AfterLoop([f EXCEPT !.pg.stopped_reason = "error: message",
                                !.pg.result = "False"], lib)
         [] r.kind = "error_not_object" ->
            ErrorReturn(f, "Unexpected error", "AttributeError")
         [] r.kind = "json_null" ->
            ErrorReturn(f, "Unexpected error", "TypeError")
         [] r.kind = "timeout" ->
            AfterLoop([f EXCEPT !.pg.stopped_reason = "request_timeout"], lib)
         [] r.kind = "request_error" ->
            AfterLoop([f EXCEPT !.pg.stopped_reason = "request_error: message"], lib)

\* --------------------------------------------------- fetch_layer_metadata
CommonOidNames == <<"OBJECTID", "FID", "OID", "objectid", "fid", "oid">>

\* The name of the first esriFieldTypeOID field, "" when there is none.
TypedOidField(fields) ==
    LET typed == {i \in DOMAIN fields : fields[i].type = "esriFieldTypeOID"}
    IN IF typed = {} THEN ""
       ELSE fields[CHOOSE i \in typed : \A j \in typed : i <= j].name

\* The first common ObjectID name that is a field name, "" when none is.
CommonOidField(fields) ==
    LET field_names == {fields[i].name : i \in DOMAIN fields}
        found == {k \in DOMAIN CommonOidNames : CommonOidNames[k] \in field_names}
    IN IF found = {} THEN ""
       ELSE CommonOidNames[CHOOSE k \in found : \A j \in found : k <= j]

\* (metadata, error): every failure of the fetch is caught inside it.
FetchLayerMetadata(m) ==
    IF m.kind = "ok"
    THEN [layer_meta |->
              Some([supports_pagination |-> m.supportsPagination,
                    oid_field |-> IF TypedOidField(m.fields) # ""
                                  THEN TypedOidField(m.fields)
                                  ELSE CommonOidField(m.fields)]),
          meta_error |-> None]
    ELSE [layer_meta |-> Absent,
          meta_error |-> CASE m.kind = "esri_error" -> "Layer metadata error"
                           [] m.kind = "json_null" -> "Metadata parsing error"
                           [] m.kind = "timeout" -> "Metadata request timed out"
                           [] m.kind = "request_error" -> "Metadata request failed"]

\* What the log keeps of a metadata fetch: it failed, or what it said.
MetadataOutcome(fetched) ==
    IF fetched.layer_meta = Absent THEN "failed"
    ELSE IF ~fetched.layer_meta[1].supports_pagination THEN "unsupported"
    ELSE IF fetched.layer_meta[1].oid_field = "" THEN "no_oid" ELSE "pageable"

\* OnMetadata without the oid_field test: it pages whenever paging is supported.
OnMetadataNoOidCheck(f0, m, lib) ==
    LET fetched == FetchLayerMetadata(m)
        f == Logged(f0, "metadata", MetadataOutcome(fetched),
                    [exceededTransferLimit |-> FALSE, features |-> <<>>])
    IN IF fetched.layer_meta # Absent /\ fetched.layer_meta[1].supports_pagination
       THEN LoopHead([f EXCEPT !.pg = InitPagination], lib)
       ELSE BuildResult([MarkIncomplete(f, "pagination_not_supported") EXCEPT
                !.metadata.pagination =
                    Some([used |-> FALSE, supports_pagination |-> FALSE,
                          pages_fetched |-> 0, stopped_reason |-> None])], lib)

\* The metadata fetch of a truncated first response and the branch it takes.
OnMetadata(f0, m, lib) ==
    LET fetched == FetchLayerMetadata(m)
        f == Logged(f0, "metadata", MetadataOutcome(fetched),
                    [exceededTransferLimit |-> FALSE, features |-> <<>>])
    IN IF fetched.layer_meta # Absent /\ fetched.layer_meta[1].supports_pagination
       THEN IF fetched.layer_meta[1].oid_field # ""
            THEN LoopHead([f EXCEPT !.pg = InitPagination], lib)
            ELSE BuildResult([MarkIncomplete(f, "no_oid_field") EXCEPT
                     !.metadata.pagination =
                         Some([used |-> FALSE, supports_pagination |-> TRUE,
                               pages_fetched |-> 0, stopped_reason |-> None])], lib)
       ELSE BuildResult([MarkIncomplete(f, "pagination_not_supported") EXCEPT
                !.metadata.pagination =
                    Some([used |-> FALSE, supports_pagination |-> FALSE,
                          pages_fetched |-> 0, stopped_reason |-> None])], lib)

\* "Check for features" on the parsed body of the primary request.
CheckFeatures(f, result, lib) ==
    IF result.kind = "json_null"
    THEN ErrorReturn(f, "Unexpected error", "TypeError")
    ELSE IF result.kind = "ok" /\ Len(result.features) > 0
         THEN LET g == [f EXCEPT !.all_esri_features = result.features]
              IN IF result.exceededTransferLimit /\ cfg.pagination_enabled
                 THEN [g EXCEPT !.pc = "fetch_metadata"]
                 ELSE IF result.exceededTransferLimit
                      THEN BuildResult([MarkIncomplete(g, "pagination_disabled")
                               EXCEPT !.metadata.warning = "Result exceeded server limit"],
                               lib)
                      ELSE BuildResult(g, lib)
         ELSE ReturnNone(f)

\* metadata['query_method'] = query_method
SetQueryMethod(f, query_method) ==
    [f EXCEPT !.metadata.query_method = query_method]

\* The envelope request; its transport errors reach the outer handler.
OnEnvelope(f0, r, lib) ==
    LET f == Logged(f0, "envelope", r.kind, r)
        query_method == IF f.use_polygon_query THEN "envelope_fallback" ELSE "envelope"
    IN IF r.kind \in {"timeout", "request_error"}
       THEN ErrorReturn(f, "Request failed", "RequestException")
       ELSE CheckFeatures(SetQueryMethod(f, query_method), r, lib)

\* PolygonResult of an attempt that resets result whatever came back.
PolygonResultAlwaysNone(r) == Absent

\* result after the polygon attempt: the parsed body, reset to None on a
\* server-reported error; a body that was parsed before an exception stays.
PolygonResult(r) ==
    IF r.kind \in {"ok", "error_not_object"} THEN Some(r) ELSE Absent

\* The reason each failure branch of the polygon attempt records.
PolygonFallbackReason(r) ==
    CASE r.kind = "ok" -> None
      [] r.kind = "esri_error" -> "esri_error: message"
      [] r.kind = "timeout" -> "timeout"
      [] r.kind = "request_error" -> "request_error: message"
      [] r.kind \in {"error_not_object", "json_null"} -> "error: message"

\* RecordFallbackReason that also leaves the reason in metadata['warning'].
RecordFallbackReasonAsWarning(f, reason) ==
    [f EXCEPT !.metadata.query_fallback_reason = reason,
              !.metadata.warning = reason]

RecordFallbackReason(f, reason) ==
    [f EXCEPT !.metadata.query_fallback_reason = reason]

\* The polygon attempt: the plan's vertex figures go into the metadata, the
\* request is made, and the envelope request follows when result is None.
OnPolygon(f0, r, lib) ==
    LET pqm == cfg.polygon_query_metadata
        f1 == IF pqm = Absent THEN f0
              ELSE [f0 EXCEPT
                  !.metadata.query_vertices = Some(pqm[1].query_vertices),
                  !.metadata.simplification_applied = Some(pqm[1].simplification_applied),
                  !.metadata.original_vertices =
                      IF pqm[1].simplification_applied
                      THEN Some(pqm[1].original_vertices) ELSE Absent]
        f == RecordFallbackReason(Logged(f1, "polygon", r.kind, r),
                                  PolygonFallbackReason(r))
        query_method == IF r.kind = "ok" THEN "polygon" ELSE "envelope"
    IN IF PolygonResult(r) = Absent
       THEN [f EXCEPT !.pc = "envelope_attempt"]
       ELSE CheckFeatures(SetQueryMethod(f, query_method), PolygonResult(r)[1], lib)

\* ------------------------------------------------------ process_all_layers
RECURSIVE Sum(_, _)
Sum(f, S) ==
    IF S = {} THEN 0
    ELSE LET x == CHOOSE y \in S : TRUE IN f[x] + Sum(f, S \ {x})

\* The counts of the "Query Summary" block.
QuerySummary(md) ==
    LET names == DOMAIN md
        Count(P(_)) == Cardinality({n \in names : P(md[n])})
    IN [layers_queried |-> Cardinality(names),
        total_features |-> Sum([n \in names |-> md[n].feature_count], names),
        layers_with_data |-> Count(LAMBDA m : m.feature_count > 0),
        polygon_queries |-> Count(LAMBDA m : m.query_method = "polygon"),
        envelope_queries |-> Count(LAMBDA m : m.query_method = "envelope"),
        fallback_queries |-> Count(LAMBDA m : m.query_method = "envelope_fallback"),
        layers_with_pagination |->
            Count(LAMBDA m : m.pagination # Absent /\ m.pagination[1].used),
        layers_incomplete |-> Count(LAMBDA m : m.results_incomplete)]

\* What the services of this run may answer.
RemoteQueryResponses ==
    IF cfg.remote = "any" THEN QueryResponses ELSE FewQueryResponses
RemotePageResponses == RemoteQueryResponses \cap PageResponses
RemoteMetadataResponses ==
    IF cfg.remote = "any" THEN MetadataResponses ELSE FewMetadataResponses

Init ==
    /\ cfg \in RunConfigs
    /\ li = 1
    /\ fr = IdleFrame
    /\ tw = IdleFrame
    /\ results = <<>>
    /\ metadata = <<>>
    /\ summary = Absent
    /\ NoServices
    /\ plan = Absent
    /\ clip = Absent
    /\ agg = Absent
    /\ norm = Absent

\* The loop reaches an enabled layer and calls query_arcgis_layer.
QueryLayer ==
    /\ fr.pc = "idle"
    /\ li <= Len(cfg.layers_to_process)
    /\ cfg.layers_to_process[li].enabled
    /\ fr' = NewFrame(cfg.layers_to_process[li].name,
                      cfg.layers_to_process[li].geometry_type,
                      cfg.use_polygon_query)
    /\ tw' = IF fr'.pc = "polygon_attempt"
             THEN NewFrame(cfg.layers_to_process[li].name,
                           cfg.layers_to_process[li].geometry_type, FALSE)
             ELSE IdleFrame
    /\ li' = li + 1
    /\ UNCHANGED <<services, units, cfg, results, metadata, summary>>

\* The loop reaches a disabled layer and skips it.
SkipLayer ==
    /\ fr.pc = "idle"
    /\ li <= Len(cfg.layers_to_process)
    /\ ~cfg.layers_to_process[li].enabled
    /\ li' = li + 1
    /\ UNCHANGED <<services, units, cfg, fr, tw, results, metadata, summary>>

PolygonRequest ==
    /\ fr.pc = "polygon_attempt"
    /\ \E r \in RemoteQueryResponses, lib \in FromFeaturesEmpty :
        /\ fr' = OnPolygon(fr, r, lib)
        /\ tw' = IF fr'.pc = "envelope_attempt" THEN tw ELSE IdleFrame
    /\ UNCHANGED <<services, units, cfg, li, results, metadata, summary>>

EnvelopeRequest ==
    /\ fr.pc = "envelope_attempt"
    /\ \E r \in RemoteQueryResponses, lib \in FromFeaturesEmpty :
        /\ fr' = OnEnvelope(fr, r, lib)
        /\ tw' = IF tw.pc = "envelope_attempt" THEN OnEnvelope(tw, r, lib) ELSE tw
    /\ UNCHANGED <<services, units, cfg, li, results, metadata, summary>>

MetadataRequest ==
    /\ fr.pc = "fetch_metadata"
    /\ \E m \in RemoteMetadataResponses, lib \in FromFeaturesEmpty :
        /\ fr' = OnMetadata(fr, m, lib)
        /\ tw' = IF tw.pc = "fetch_metadata" THEN OnMetadata(tw, m, lib) ELSE tw
    /\ UNCHANGED <<services, units, cfg, li, results, metadata, summary>>

PageRequest ==
    /\ fr.pc = "paging"
    /\ \E r \in RemotePageResponses, delay \in 0..MaxDelay, lib \in FromFeaturesEmpty :
        /\ fr' = OnPage(fr, r, delay, lib)
        /\ tw' = IF tw.pc = "paging" THEN OnPage(tw, r, delay, lib) ELSE tw
    /\ UNCHANGED <<services, units, cfg, li, results, metadata, summary>>

\* query_arcgis_layer has returned (gdf, meta): the loop files them.
Collect ==
    /\ fr.pc = "returned"
    /\ results' = IF fr.gdf # Absent
                  THEN results @@ (fr.metadata.layer_name :> fr.gdf[1])
                  ELSE results
    /\ metadata' = metadata @@ (fr.metadata.layer_name :> fr.metadata)
    /\ fr' = IdleFrame
    /\ tw' = IdleFrame
    /\ UNCHANGED <<services, units, cfg, li, summary>>

\* The loop has ended: the summary is computed from the metadata.
Summarize ==
    /\ summary = Absent
    /\ fr.pc = "idle"
    /\ li > Len(cfg.layers_to_process)
    /\ summary' = Some(QuerySummary(metadata))
    /\ UNCHANGED <<services, units, cfg, li, fr, tw, results, metadata>>

Next ==
    \/ QueryLayer
    \/ SkipLayer
    \/ PolygonRequest
    \/ EnvelopeRequest
    \/ MetadataRequest
    \/ PageRequest
    \/ Collect
    \/ Summarize

Spec == Init /\ [][Next]_vars

\* ================================================================ claims
\* The requests of one kind in the log of a call, in order.
Requests(f, req) == SelectSeq(f.log, LAMBDA e : e.req = req)

\* The query requests (polygon, envelope, page) of a call, in order.
QueryRequests(f) == SelectSeq(f.log, LAMBDA e : e.req # "metadata")

Last(seq) == seq[Len(seq)]

\* The polygon request of the call failed: no usable result came back.
PolygonFailed(f) ==
    Requests(f, "polygon") # <<>> /\ Requests(f, "polygon")[1].kind # "ok"

\* The envelope request of the call failed in transport.
EnvelopeTransportFailed(f) ==
    /\ Requests(f, "envelope") # <<>>
    /\ Last(Requests(f, "envelope")).kind \in {"timeout", "request_error"}

\* C1: a request failure that survives the envelope fallback, or an
\* unexpected exception inside query_arcgis_layer, yields a result with error
\* set, feature_count = 0 and no feature collection; the loop files it like
\* any other result and still reaches every enabled layer.
C1_FailureYieldsErrorResult ==
    /\ (fr.pc = "returned" /\ (EnvelopeTransportFailed(fr) \/ fr.raised # None)) =>
          /\ fr.metadata.error # None
          /\ fr.metadata.feature_count = 0
          /\ fr.gdf = Absent
    /\ \A n \in DOMAIN metadata :
          metadata[n].error # None =>
              metadata[n].feature_count = 0 /\ n \notin DOMAIN results
    /\ \A i \in EnabledLayers(cfg.layers) :
          (i < li /\ ~(fr.pc # "idle" /\ fr.metadata.layer_name = i)) =>
              i \in DOMAIN metadata

\* A run that ended with a failed layer followed by a layer with features.
C1_Witness ==
    /\ summary # Absent
    /\ \E a, b \in DOMAIN metadata :
          /\ a < b
          /\ metadata[a].error # None
          /\ metadata[b].error = None
          /\ b \in DOMAIN results

\* C2 as claimed: once the polygon request has failed and the envelope
\* request was made, the result says envelope_fallback and gives the reason,
\* whatever the envelope request returned; an envelope-strategy call says
\* envelope.
C2_FallbackAlwaysRecorded ==
    fr.pc = "returned" =>
        /\ (PolygonFailed(fr) /\ Requests(fr, "envelope") # <<>>) =>
              /\ fr.metadata.query_method = "envelope_fallback"
              /\ fr.metadata.query_fallback_reason # None
        /\ ~fr.use_polygon_query => fr.metadata.query_method = "envelope"

\* C3 as claimed: when the envelope response is a server-reported error
\* payload, the result carries an error and no features.
C3_ServerErrorReported ==
    (/\ fr.pc = "returned"
     /\ Requests(fr, "envelope") # <<>>
     /\ Last(Requests(fr, "envelope")).kind \in {"esri_error", "error_not_object"}) =>
        /\ fr.metadata.error # None
        /\ fr.gdf = Absent

\* The features of a server list that reach the result: converted, inside
\* the area, and not clipped away when the layer is clipped.
FinalFeatures(esri_features, geometry_type) ==
    LET clips == cfg.clip_boundary # None /\ geometry_type \in {"line", "polygon"}
    IN SelectSeq(esri_features,
                 LAMBDA x : /\ ConvertEsriToGeojson(x) # Absent
                            /\ Intersects(x)
                            /\ clips => ~ClipsToEmpty(x))

\* The features of the pages that were fetched, in order.
RECURSIVE PageFeatures(_)
PageFeatures(entries) ==
    IF entries = <<>> THEN <<>>
    ELSE (IF Head(entries).kind = "ok" THEN Head(entries).features ELSE <<>>)
         \o PageFeatures(Tail(entries))

\* The metadata fetch of the call said this (MetadataOutcome).
MetadataSaid(f, outcome) ==
    \E i \in DOMAIN f.log : f.log[i].req = "metadata" /\ f.log[i].kind = outcome

Flagged(f) ==
    f.metadata.results_incomplete /\ f.metadata.incomplete_reason # None

\* C4 as claimed: in a result without error, a last query response that
\* signalled truncation, or a pagination that ended on anything but a
\* complete page, means results_incomplete and a reason; and
\* results_incomplete means some response signalled truncation.
C4_TruncationAlwaysFlagged ==
    (fr.pc = "returned" /\ fr.metadata.error = None) =>
        /\ (QueryRequests(fr) # <<>> /\ Last(QueryRequests(fr)).more) => Flagged(fr)
        /\ (/\ MetadataSaid(fr, "pageable")
            /\ \/ Requests(fr, "page") = <<>>
               \/ Last(Requests(fr, "page")).kind # "ok"
               \/ Last(Requests(fr, "page")).more) => Flagged(fr)
        /\ fr.metadata.results_incomplete => \E i \in DOMAIN fr.log : fr.log[i].more

\* C5 as claimed: never more page requests than pagination_max_iterations;
\* and when every page came back truncated and the time budget did not stop
\* the loop, exactly pagination_max_iterations pages were requested and the
\* layer ends incomplete with reason max_iterations.
C5_StopsAtMaxIterations ==
    /\ Len(Requests(fr, "page")) <= cfg.pagination_max_iterations
    /\ (/\ fr.pc = "returned"
        /\ MetadataSaid(fr, "pageable")
        /\ \A i \in DOMAIN fr.log :
              fr.log[i].req = "page" => fr.log[i].kind = "ok" /\ fr.log[i].more
        /\ fr.metadata.incomplete_reason # "timeout") =>
            /\ Len(Requests(fr, "page")) = cfg.pagination_max_iterations
            /\ fr.metadata.results_incomplete
            /\ fr.metadata.incomplete_reason = "max_iterations"

\* C6: when the first response is truncated and the layer metadata says
\* paging is unsupported, or supported without an ObjectID field, no page is
\* requested, the result is flagged incomplete with the matching reason, and
\* its features are those of the first response after filter and clip (no
\* result at all only when none of them converts and the frame cannot be
\* built).
C6_NoPagingWithoutSupport ==
    (fr.pc = "returned" /\ (MetadataSaid(fr, "unsupported") \/ MetadataSaid(fr, "no_oid"))) =>
        /\ Requests(fr, "page") = <<>>
        /\ fr.metadata.results_incomplete
        /\ MetadataSaid(fr, "unsupported") =>
              fr.metadata.incomplete_reason = "pagination_not_supported"
        /\ MetadataSaid(fr, "no_oid") =>
              fr.metadata.incomplete_reason = "no_oid_field"
        /\ Last(QueryRequests(fr)).more
        /\ IF fr.metadata.error = None
           THEN fr.gdf = Some(FinalFeatures(Last(QueryRequests(fr)).features,
                                            fr.geometry_type))
           ELSE Converted(Last(QueryRequests(fr)).features) = <<>> /\ fr.gdf = Absent

\* A truncated first response, paging supported, no ObjectID field, and a
\* result with a feature in it.
C6_Witness ==
    /\ fr.pc = "returned"
    /\ MetadataSaid(fr, "no_oid")
    /\ fr.metadata.incomplete_reason = "no_oid_field"
    /\ fr.gdf # Absent
    /\ fr.gdf[1] # <<>>

\* C7 as claimed: a pagination cut short by the time budget or by a page
\* timeout still ends in a partial result: no error, results_incomplete, and
\* the features of the pages fetched so far; and the next call starts its
\* pagination with a fresh budget.
C7_BudgetStopKeepsPartialResult ==
    /\ (/\ fr.pc = "returned"
        /\ fr.metadata.pagination # Absent
        /\ fr.metadata.pagination[1].stopped_reason \in {"timeout", "request_timeout"}) =>
            /\ fr.metadata.error = None
            /\ fr.metadata.results_incomplete
            /\ fr.gdf = Some(FinalFeatures(PageFeatures(Requests(fr, "page")),
                                           fr.geometry_type))
    /\ (fr.pc = "paging" /\ Requests(fr, "page") = <<>>) => fr.pg.elapsed = 0

\* C8 as claimed: every result carries server_count and filtered_count, with
\* feature_count <= server_count and filtered_count = server_count minus the
\* number of features that passed the client-side filter.
C8_CountsOnEveryPath ==
    fr.pc = "returned" =>
        /\ fr.metadata.server_count # Absent
        /\ fr.metadata.filtered_count # Absent
        /\ fr.metadata.feature_count <= fr.metadata.server_count[1]
        /\ fr.metadata.filtered_count[1] =
              fr.metadata.server_count[1]
              - Len(ClientFilter(Converted(fr.all_esri_features)))

\* The keys of the metadata dict that the polygon attempt may leave behind.
PolygonAttemptKeys ==
    {"query_method", "query_fallback_reason", "query_vertices",
     "simplification_applied", "original_vertices"}

MetadataKeys == DOMAIN InitMetadata(0)

\* The fallback call and its envelope-strategy shadow have both returned.
FallbackReturned ==
    /\ fr.pc = "returned"
    /\ PolygonFailed(fr)
    /\ Requests(fr, "envelope") # <<>>

\* C9 as claimed: after a fallback the result is the one of an envelope call
\* on the same answers, feature for feature, and the metadata differs in
\* query_method and query_fallback_reason only.
C9_OnlyMethodAndReasonDiffer ==
    FallbackReturned =>
        /\ tw.pc = "returned"
        /\ tw.gdf = fr.gdf
        /\ \A k \in MetadataKeys \ {"query_method", "query_fallback_reason"} :
              tw.metadata[k] = fr.metadata[k]

\* C9, amended: after a fallback the feature set is the one of an envelope
\* call on the same answers, and the metadata agrees on every key but
\* query_method, query_fallback_reason and the vertex figures the polygon
\* attempt recorded (query_vertices, simplification_applied,
\* original_vertices); from the envelope request on the two calls are at the
\* same request.
C9_FallbackEquivalentToEnvelope ==
    /\ (tw.pc # "idle" /\ fr.pc # "polygon_attempt") =>
          tw.pc = fr.pc /\ tw.all_esri_features = fr.all_esri_features
    /\ FallbackReturned =>
          /\ tw.pc = "returned"
          /\ tw.gdf = fr.gdf
          /\ \A k \in MetadataKeys \ PolygonAttemptKeys :
                tw.metadata[k] = fr.metadata[k]

\* A fallback that went through pagination and ended with a feature.
C9_Witness ==
    /\ FallbackReturned
    /\ tw.pc = "returned"
    /\ fr.metadata.query_method = "envelope_fallback"
    /\ Requests(fr, "page") # <<>>
    /\ fr.gdf # Absent
    /\ fr.gdf[1] # <<>>

\* C10: a call makes at most one polygon request and at most one envelope
\* request, the envelope request only under the envelope strategy or after a
\* polygon request that failed; and nothing is requested again after a failed
\* envelope request, metadata fetch or page.
C10_NoRetries ==
    /\ Len(Requests(fr, "polygon")) <= 1
    /\ Len(Requests(fr, "envelope")) <= 1
    /\ Len(Requests(fr, "metadata")) <= 1
    /\ \A i \in DOMAIN fr.log :
          /\ fr.log[i].req = "envelope" =>
                \/ ~fr.use_polygon_query
                \/ i = 2 /\ fr.log[1].req = "polygon" /\ fr.log[1].kind # "ok"
          /\ fr.log[i].req = "polygon" => i = 1
          /\ (fr.log[i].req \in {"envelope", "page"} /\ fr.log[i].kind # "ok") =>
                i = Len(fr.log)
          /\ (fr.log[i].req = "metadata" /\ fr.log[i].kind = "failed") =>
                i = Len(fr.log)

\* A call that made the polygon request, the envelope request after it
\* failed, the metadata fetch, and two pages of which the second failed.
C10_Witness ==
    /\ fr.pc = "returned"
    /\ Len(fr.log) = 5
    /\ fr.log[1].req = "polygon"
    /\ fr.log[2].req = "envelope"
    /\ fr.log[5].req = "page"
    /\ fr.log[5].kind # "ok"

\* ------------------------------------------------------------ termination
\* Every request of a call returns or times out.
FairSpec ==
    /\ Spec
    /\ WF_vars(PolygonRequest)
    /\ WF_vars(EnvelopeRequest)
    /\ WF_vars(MetadataRequest)
    /\ WF_vars(PageRequest)

\* The order of the stages of a call: the polygon or the envelope attempt,
\* the envelope fallback, the metadata fetch and the page loop, the return.
StageOrder ==
    {<<"idle", "polygon_attempt">>, <<"idle", "envelope_attempt">>,
     <<"polygon_attempt", "envelope_attempt">>,
     <<"polygon_attempt", "fetch_metadata">>, <<"polygon_attempt", "returned">>,
     <<"envelope_attempt", "fetch_metadata">>, <<"envelope_attempt", "returned">>,
     <<"fetch_metadata", "paging">>, <<"fetch_metadata", "returned">>,
     <<"paging", "paging">>, <<"paging", "returned">>,
     <<"returned", "idle">>}

\* One step of the call along the order of its stages.
StageStep == (<<fr.pc, fr'.pc>> \in StageOrder)

\* A returned call is complete or failed: failed has an error and nothing
\* else, complete with a frame has been through the client filter and, for
\* a clipped layer, the clip, both applied to what the queries collected.
Terminal(f) ==
    /\ f.metadata.error # None => f.gdf = Absent /\ f.metadata.feature_count = 0
    /\ f.gdf # Absent =>
          /\ f.metadata.error = None
          /\ f.metadata.server_count # Absent
          /\ f.gdf = Some(FinalFeatures(f.all_esri_features, f.geometry_type))

\* C11: when every request returns or times out, a call of query_arcgis_layer
\* that has started reaches its return, as complete or as failed and never
\* both; its stages follow each other in the order polygon or envelope
\* attempt, fallback, pagination, filter and clip; and the page loop never
\* goes beyond pagination_max_iterations pages.
C11_CallTerminates ==
    /\ [][StageStep]_fr
    /\ [](fr.pc = "returned" => Terminal(fr))
    /\ [](fr.pg.iteration <= cfg.pagination_max_iterations)
    /\ (fr.pc \in {"polygon_attempt", "envelope_attempt"}) ~> (fr.pc = "returned")

\* A complete call that went through every stage: fallback, two pages, the
\* filter and the clip.
C11_Witness ==
    /\ fr.pc = "returned"
    /\ fr.metadata.error = None
    /\ PolygonFailed(fr)
    /\ Len(Requests(fr, "page")) = 2
    /\ fr.metadata.clipping # Absent
    /\ fr.gdf # Absent
    /\ fr.gdf[1] # <<>>

\* ------------------------------------------------------------- shared plan
\* What a result shows of the plan its call was given: the strategy, the
\* vertex figures of the polygon payload, the clip boundary.
FollowsPlan(md, use_polygon_query) ==
    /\ use_polygon_query = cfg.use_polygon_query
    /\ md.query_method \in {"polygon", "envelope_fallback"} => cfg.use_polygon_query
    /\ md.query_vertices # Absent =>
          /\ cfg.polygon_query_metadata # Absent
          /\ md.query_vertices = Some(cfg.polygon_query_metadata[1].query_vertices)
          /\ md.simplification_applied =
                Some(cfg.polygon_query_metadata[1].simplification_applied)
    /\ md.original_vertices # Absent =>
          md.original_vertices = Some(cfg.polygon_query_metadata[1].original_vertices)
    /\ md.clipping # Absent => cfg.clip_boundary # None

\* C12: the strategy, the polygon payload and the clip boundary of a run are
\* fixed before its first layer query; every call gets the same strategy
\* flag, the same payload and the same boundary; and no step of a call
\* changes them.
C12_PlanSharedUnchanged ==
    /\ [][cfg' = cfg]_vars
    /\ [](fr.pc # "idle" =>
            /\ FollowsPlan(fr.metadata, fr.use_polygon_query)
            /\ fr.pc = "polygon_attempt" => cfg.esri_polygon_json # None)
    /\ [](\A n \in DOMAIN metadata : FollowsPlan(metadata[n], cfg.use_polygon_query))
    /\ [](\A a, b \in DOMAIN metadata :
            (metadata[a].query_vertices # Absent /\ metadata[b].query_vertices # Absent) =>
                /\ metadata[a].query_vertices = metadata[b].query_vertices
                /\ metadata[a].original_vertices = metadata[b].original_vertices)

\* A run whose two layers were both queried with the polygon of the plan.
C12_Witness ==
    /\ summary # Absent
    /\ \E a, b \in DOMAIN metadata :
          /\ a # b
          /\ metadata[a].query_method = "polygon"
          /\ metadata[b].query_method = "polygon"
          /\ metadata[a].original_vertices # Absent

\* ============================================== query-strategy planner
\* process_all_layers works out the query strategy once, before the layer
\* loop, from the one geometry of the input area.  Ratios and thresholds are
\* counted in units of 1/Scale, the smallest unit in which every band of the
\* threshold is a whole number at every whole square mile.
Scale == 120000

Hundredths(n) == n * (Scale \div 100)

Min(a, b) == IF a <= b THEN a ELSE b

\* calculate_dynamic_bbox_threshold with the 500..1500 band starting at 0.55.
ThresholdWithStep(area_sq_miles) ==
    IF area_sq_miles < 100 THEN Hundredths(5)
    ELSE IF area_sq_miles < 500
        THEN Hundredths(5) + ((area_sq_miles - 100) * Hundredths(45)) \div 400
    ELSE IF area_sq_miles < 1500
        THEN Hundredths(55) + ((area_sq_miles - 500) * Hundredths(15)) \div 1000
    ELSE IF area_sq_miles < 3000
        THEN Hundredths(70) + ((area_sq_miles - 1500) * Hundredths(10)) \div 1500
    ELSE IF area_sq_miles < 4000
        THEN Hundredths(80) + ((area_sq_miles - 3000) * Hundredths(15)) \div 1000
    ELSE Hundredths(95)

\* calculate_dynamic_bbox_threshold(area_sq_miles).
CalculateDynamicBboxThreshold(area_sq_miles) ==
    IF area_sq_miles < 100 THEN Hundredths(5)
    ELSE IF area_sq_miles < 500
        THEN Hundredths(5) + ((area_sq_miles - 100) * Hundredths(45)) \div 400
    ELSE IF area_sq_miles < 1500
        THEN Hundredths(50) + ((area_sq_miles - 500) * Hundredths(20)) \div 1000
    ELSE IF area_sq_miles < 3000
        THEN Hundredths(70) + ((area_sq_miles - 1500) * Hundredths(10)) \div 1500
    ELSE IF area_sq_miles < 4000
        THEN Hundredths(80) + ((area_sq_miles - 3000) * Hundredths(15)) \div 1000
    ELSE Hundredths(95)

\* The largest area drawn, in whole square miles: past the last band.
MaxArea == 4001

\* polygon_query_max_vertices when the settings do not give one.
DefaultMaxQueryVertices == 1000

\* The geometry of the input area as the planner reads it: its type, its
\* area in square miles, its area over the area of its bounding box, and the
\* vertices of its rings.  make_valid may leave a GeometryCollection.  An
\* empty geometry has no area.  The fill ratios drawn lie at, just under
\* and far from the threshold of the area, at 1.0 and, before the cap, above.
PlanGeometries(area_sq_miles) ==
    {g \in [geom_type : {"Polygon", "GeometryCollection"},
            is_empty : BOOLEAN,
            area_sq_miles : {area_sq_miles},
            fill : {0, CalculateDynamicBboxThreshold(area_sq_miles) - 1,
                    CalculateDynamicBboxThreshold(area_sq_miles),
                    Scale, Scale + 1},
            vertices : {5, DefaultMaxQueryVertices + 1}] :
        /\ g.is_empty =>
              g.area_sq_miles = 0 /\ g.fill = 0 /\ g.vertices = 5
                                  /\ g.geom_type = "Polygon"
        /\ g.geom_type = "GeometryCollection" => g.vertices = 5}

\* calculate_bbox_fill_ratio(geom).
CalculateBboxFillRatio(geom) ==
    IF geom.is_empty THEN Scale ELSE Min(geom.fill, Scale)

\* count_geometry_vertices(geom).
CountGeometryVertices(geom) ==
    IF geom.is_empty THEN 0
    ELSE IF geom.geom_type = "Polygon" THEN geom.vertices
    ELSE 0

\* simplify_for_query(geom, max_vertices): the geometry itself when it is
\* small enough, else what shapely's simplify leaves: a geometry at the
\* limit, or the geometry as it was when simplifying did not help or broke it.
SimplifyForQuery(geom, max_vertices) ==
    IF CountGeometryVertices(geom) <= max_vertices THEN {geom}
    ELSE {[geom EXCEPT !.vertices = max_vertices], geom}

\* shapely_to_esri_polygon(geom): None for an empty geometry and for any
\* type but Polygon and MultiPolygon.
ShapelyToEsriPolygon(geom) ==
    IF geom.is_empty THEN None
    ELSE IF geom.geom_type = "Polygon" THEN "rings"
    ELSE None

\* The planner before it ran.
PlanInput(polygon_query_config, geom) ==
    [pc |-> "input",
     polygon_query_config |-> polygon_query_config,
     geometry |-> geom,
     use_polygon_query |-> FALSE,
     esri_polygon_json |-> None,
     polygon_query_metadata |-> <<>>]

\* The envelope-or-polygon decision with > in place of >=.
FillsBoxStrictly(bbox_fill_ratio, bbox_fill_threshold) ==
    bbox_fill_ratio > bbox_fill_threshold

\* bbox_fill_ratio >= bbox_fill_threshold: envelope queries are planned.
FillsBox(bbox_fill_ratio, bbox_fill_threshold) ==
    bbox_fill_ratio >= bbox_fill_threshold

\* The plan of process_all_layers for one input, simplified being what
\* simplify_for_query returned.
PlanOf(p, simplified) ==
    LET geom == p.geometry
        bbox_fill_ratio == CalculateBboxFillRatio(geom)
        bbox_fill_threshold == CalculateDynamicBboxThreshold(geom.area_sq_miles)
        figures == [area_sq_miles |-> geom.area_sq_miles,
                    bbox_fill_ratio |-> bbox_fill_ratio,
                    dynamic_threshold |-> bbox_fill_threshold]
        original_vertices == CountGeometryVertices(geom)
        query_vertices == CountGeometryVertices(simplified)
        simplification_applied == query_vertices < original_vertices
        counted == [query_vertices |-> query_vertices,
                    simplification_applied |-> simplification_applied]
        esri_polygon == ShapelyToEsriPolygon(simplified)
    IN  IF ~p.polygon_query_config
            THEN [p EXCEPT !.pc = "planned"]
        ELSE IF FillsBox(bbox_fill_ratio, bbox_fill_threshold)
            THEN [p EXCEPT !.pc = "planned", !.polygon_query_metadata = figures]
        ELSE [p EXCEPT
                !.pc = "planned",
                !.use_polygon_query = esri_polygon # None,
                !.esri_polygon_json = esri_polygon,
                !.polygon_query_metadata =
                    IF simplification_applied
                        THEN figures @@ counted @@
                             [original_vertices |-> original_vertices]
                        ELSE figures @@ counted]

\* The rest of the program stands still while one of its parts is followed.
NoRun ==
    /\ cfg = <<>>
    /\ li = 0
    /\ fr = IdleFrame
    /\ tw = IdleFrame
    /\ results = <<>>
    /\ metadata = <<>>
    /\ summary = Absent

PlanInit ==
    /\ NoRun
    /\ NoServices
    /\ clip = Absent
    /\ agg = Absent
    /\ norm = Absent
    /\ plan \in {PlanInput(c, g) :
                    c \in BOOLEAN,
                    g \in UNION {PlanGeometries(a) : a \in 0..MaxArea}}

\* process_all_layers, lines 125-190: the plan is made.
Plan ==
    /\ plan.pc = "input"
    /\ \E simplified \in SimplifyForQuery(plan.geometry, DefaultMaxQueryVertices) :
          plan' = PlanOf(plan, simplified)
    /\ UNCHANGED <<services, run, clip, agg, norm>>

PlanNext == Plan

PlanSpec == PlanInit /\ [][PlanNext]_vars

\* ------------------------------------------------------------------ C13
\* The planner chose the envelope strategy.
PlannedEnvelope == plan.pc = "planned" /\ ~plan.use_polygon_query

\* The fill ratio and the threshold the planner worked with.
PlanRatio == CalculateBboxFillRatio(plan.geometry)

PlanThreshold == CalculateDynamicBboxThreshold(plan.geometry.area_sq_miles)

OnLine(t, a, a0, a1, lo, hi) ==
    (t - Hundredths(lo)) * (a1 - a0) = (a - a0) * Hundredths(hi - lo)

\* The area just under a band boundary.
UnderBoundary(a) == a + 1 \in {100, 500, 1500, 3000, 4000}

\* C14: the threshold the planner computed is 0.05 under 100 square miles,
\* lies on the line 0.05 -> 0.50 over [100, 500), 0.50 -> 0.70 over
\* [500, 1500), 0.70 -> 0.80 over [1500, 3000), 0.80 -> 0.95 over
\* [3000, 4000), and is 0.95 from 4000 on; it lies within [0.05, 0.95], does
\* not decrease as the area grows, and goes on across every band boundary
\* with the slope of the band under it (no jump).
C14_ThresholdBands ==
    (plan.pc = "planned" /\ plan.polygon_query_config) =>
        LET a == plan.geometry.area_sq_miles
            t == plan.polygon_query_metadata.dynamic_threshold
        IN  /\ a < 100 => t = Hundredths(5)
            /\ (100 <= a /\ a < 500) => OnLine(t, a, 100, 500, 5, 50)
            /\ (500 <= a /\ a < 1500) => OnLine(t, a, 500, 1500, 50, 70)
            /\ (1500 <= a /\ a < 3000) => OnLine(t, a, 1500, 3000, 70, 80)
            /\ (3000 <= a /\ a < 4000) => OnLine(t, a, 3000, 4000, 80, 95)
            /\ a >= 4000 => t = Hundredths(95)
            /\ Hundredths(5) <= t /\ t <= Hundredths(95)
            /\ t <= CalculateDynamicBboxThreshold(a + 1)
            /\ UnderBoundary(a) =>
                  CalculateDynamicBboxThreshold(a + 1) - t =
                      t - CalculateDynamicBboxThreshold(a - 1)

\* The planner worked out the threshold of an area on a band boundary.
C14_Witness ==
    /\ plan.pc = "planned"
    /\ plan.polygon_query_config
    /\ plan.geometry.area_sq_miles = 1500
    /\ plan.polygon_query_metadata.dynamic_threshold = Hundredths(70)

\* ======================================================= state filter
\* What a layer's 'states' key may hold: nothing, an empty list, lists of
\* one and of two states, one state outside a list.
StatesFields ==
    {Absent, StateList(<<>>), StateList(<<"A">>), StateList(<<"A", "B">>),
     StateName("B")}

\* Two point layers, each enabled or not, with every 'states' key.
StateLayerLists ==
    {<<LayerConfig(1, e1, "point", s1), LayerConfig(2, e2, "point", s2)>> :
        e1 \in BOOLEAN, s1 \in StatesFields, e2 \in BOOLEAN, s2 \in StatesFields}

\* Runs with the state filter at work: it is switched off, or it detects no
\* state, one state or two; the services give the answers of a run with
\* several layers; the plan is polygon with pagination or envelope without.
FilterRunConfigs ==
  {WithStateFilter(s) : s \in
    {c \in [layers : StateLayerLists,
            state_filter_enabled : BOOLEAN,
            intersecting_states : {{}, {"A"}, {"B", "C"}},
            use_polygon_query : BOOLEAN,
            esri_polygon_json : {None, "rings"},
            polygon_query_metadata :
                {Absent, Some([query_vertices |-> 4,
                               simplification_applied |-> FALSE,
                               original_vertices |-> 4])},
            pagination_enabled : BOOLEAN,
            pagination_max_iterations : {1},
            pagination_total_timeout : {MaxTimeout},
            clip_boundary : {None},
            remote : {"few"}] :
        /\ ~c.state_filter_enabled => c.intersecting_states = {}
        /\ c.use_polygon_query <=> c.esri_polygon_json # None
        /\ c.use_polygon_query <=> c.polygon_query_metadata # Absent
        /\ c.use_polygon_query <=> c.pagination_enabled}}

FilterInit ==
    /\ cfg \in FilterRunConfigs
    /\ li = 1
    /\ fr = IdleFrame
    /\ tw = IdleFrame
    /\ results = <<>>
    /\ metadata = <<>>
    /\ summary = Absent
    /\ NoServices
    /\ plan = Absent
    /\ clip = Absent
    /\ agg = Absent
    /\ norm = Absent

FilterSpec == FilterInit /\ [][Next]_vars

\* ------------------------------------------------------------------ C15
\* The layer is state-relevant: it has no 'states' list, or its list shares
\* a state with the detected ones, or no state was detected at all.
StateRelevant(layer) ==
    \/ layer.states = Absent
    \/ cfg.intersecting_states = {}
    \/ \E i \in DOMAIN layer.states[1].names :
          layer.states[1].names[i] \in cfg.intersecting_states

\* The names of the configured layers that are enabled and state-relevant.
DueLayers ==
    {cfg.layers[i].name : i \in {j \in DOMAIN cfg.layers :
                                    /\ cfg.layers[j].enabled
                                    /\ StateRelevant(cfg.layers[j])}}

\* A step that starts a call of query_arcgis_layer starts it for a layer
\* that is due and has not been queried before.
CallsDueLayerOnce ==
    (fr.pc = "idle" /\ fr'.pc # "idle") =>
        /\ fr'.metadata.layer_name \in DueLayers
        /\ fr'.metadata.layer_name \notin DOMAIN metadata

\* C15: the layer query is invoked exactly once for each configured layer
\* that is enabled and state-relevant and never for another layer, and the
\* state filter statistics add up: layers_after_filter + layers_skipped =
\* total_layers.
C15_OncePerDueLayer ==
    /\ [][CallsDueLayerOnce]_vars
    /\ [](summary # Absent => DOMAIN metadata = DueLayers)
    /\ [](StateFilterStatistics(cfg).layers_after_filter
            + StateFilterStatistics(cfg).layers_skipped
          = StateFilterStatistics(cfg).total_layers)

\* A run that ended after querying one layer whose states matched, the
\* other layer having been left out by the state filter.
C15_Witness ==
    /\ summary # Absent
    /\ cfg.intersecting_states = {"A"}
    /\ cfg.skipped_count = 1
    /\ cfg.layers[1].enabled /\ cfg.layers[2].enabled
    /\ DOMAIN metadata = {2}
    /\ cfg.layers[2].states = StateList(<<"A", "B">>)

\* ------------------------------------------------------------------ C16
\* The client-filtered feature set of a call: the features of the server
\* that have a geometry and intersect the input area.
ClientFiltered(esri_features) ==
    SelectSeq(esri_features,
              LAMBDA x : ConvertEsriToGeojson(x) # Absent /\ Intersects(x))

\* The geometry type of the configured layer of that name.
TypeOfLayer(n) ==
    (CHOOSE l \in {cfg.layers[i] : i \in DOMAIN cfg.layers} : l.name = n).geometry_type

\* C16: a layer result carries clipping statistics only when the run has a
\* clip boundary and the layer is a line or polygon layer; a call for a
\* point layer, or in a run without clip boundary, returns the
\* client-filtered features unchanged and without clipping statistics.
C16_ClipsOnlyLinesAndPolygonsInBoundary ==
    /\ (fr.pc = "returned" /\ fr.metadata.clipping # Absent) =>
          cfg.clip_boundary # None /\ fr.geometry_type \in {"line", "polygon"}
    /\ (/\ fr.pc = "returned"
        /\ fr.gdf # Absent
        /\ (fr.geometry_type = "point" \/ cfg.clip_boundary = None)) =>
          /\ fr.metadata.clipping = Absent
          /\ fr.gdf = Some(ClientFiltered(fr.all_esri_features))
          /\ fr.metadata.feature_count = Len(ClientFiltered(fr.all_esri_features))
    /\ \A n \in DOMAIN metadata :
          metadata[n].clipping # Absent =>
              cfg.clip_boundary # None /\ TypeOfLayer(n) \in {"line", "polygon"}

\* A point layer of a run with a clip boundary came back with a feature
\* that clipping would have removed.
C16_Witness ==
    /\ fr.pc = "returned"
    /\ fr.geometry_type = "point"
    /\ cfg.clip_boundary # None
    /\ fr.gdf = Some(<<"touching">>)
    /\ fr.metadata.clipping = Absent

\* ================================================ per-feature clipping
\* _clip_per_feature, the path clip_geodataframe takes when gpd.clip raised.
\* A row of the frame holds a geometry or an empty one.  What shapely does
\* with a geometry is not the program's to decide, so every attempt draws
\* its outcome: the intersection gives a clipped geometry ("cut"), gives an
\* empty one, or raises; a repair gives a geometry, gives an empty one
\* ("no_repair"), or raises.
MaxFeatures == 2

RECURSIVE SeqsUpTo(_, _)
SeqsUpTo(S, n) ==
    IF n = 0 THEN {<<>>}
    ELSE LET shorter == SeqsUpTo(S, n - 1)
         IN  shorter \cup {Append(q, x) : q \in shorter, x \in S}

ClipFrames == SeqsUpTo({"geometry", "empty"}, MaxFeatures) \ {<<>>}

IntersectionOutcomes == {"cut", "empty", "raises"}
RepairOutcomes == {"cut", "empty", "raises", "no_repair"}

\* count_vertices of a row before and after: a geometry has four vertices,
\* a cut one three, an empty or missing one none.
CountVertices(geom) ==
    IF geom \in {"geometry", "original"} THEN 4
    ELSE IF geom = "cut" THEN 3
    ELSE 0

RECURSIVE SumVertices(_)
SumVertices(geoms) ==
    IF geoms = <<>> THEN 0
    ELSE CountVertices(Head(geoms)) + SumVertices(Tail(geoms))

\* The locals of _clip_per_feature before its loop.  tried lists the
\* attempts made so far on the row at idx and attempts those made on the
\* rows before it (a record of the work, not program state).
ClipStart(gdf, geometry_type) ==
    [pc |-> "feature", gdf |-> gdf, geometry_type |-> geometry_type,
     original_vertex_count |-> SumVertices(gdf),
     idx |-> 1, clipped_geometries |-> <<>>, features_clipped |-> 0,
     empty_indices |-> <<>>, clip_failures |-> 0, clip_metadata |-> Absent,
     tried |-> <<>>, attempts |-> <<>>]

\* The loop goes on to the next row with geom in place of the row's geometry.
NextRow(c, geom) ==
    [c EXCEPT !.pc = "feature", !.idx = @ + 1,
              !.clipped_geometries = Append(@, geom),
              !.attempts = Append(@, c.tried), !.tried = <<>>]

\* Lines 379-382: no attempt succeeded, the original geometry is kept.
KeepOriginal(c) == NextRow(c, "original")

\* Lines 384-411: an intersection came back; an empty result marks the row
\* for removal, any other counts as clipped.
Clipped(c, outcome) ==
    IF outcome = "empty"
        THEN NextRow([c EXCEPT !.empty_indices = Append(@, c.idx)], "None")
        ELSE NextRow([c EXCEPT !.features_clipped = @ + 1], "cut")

\* One more attempt is made on the row at idx.
Tried(c, n) == [c EXCEPT !.tried = Append(@, n)]

\* Lines 334-353: the loop head and the direct intersection.
OnDirectIntersection(c, outcome) ==
    IF c.gdf[c.idx] = "empty" THEN NextRow(c, "empty")
    ELSE IF outcome = "raises" THEN [Tried(c, 1) EXCEPT !.pc = "attempt2"]
    ELSE Clipped(Tried(c, 1), outcome)

\* Lines 355-363: buffer(0), then the intersection again.
OnBufferRepair(c, outcome) ==
    IF outcome = "raises" THEN [Tried(c, 2) EXCEPT !.pc = "attempt3"]
    ELSE IF outcome = "no_repair" THEN KeepOriginal(Tried(c, 2))
    ELSE Clipped(Tried(c, 2), outcome)

\* Lines 365-377: make_valid, buffer(0), then the intersection again.
OnDoubleRepair(c, outcome) ==
    IF outcome = "raises"
        THEN KeepOriginal([Tried(c, 3) EXCEPT !.clip_failures = @ + 1])
    ELSE IF outcome = "no_repair" THEN KeepOriginal(Tried(c, 3))
    ELSE Clipped(Tried(c, 3), outcome)

\* Lines 413-454: the rows marked empty are dropped, the statistics filled.
ClipMetadata(c) ==
    LET clipped_vertex_count == SumVertices(c.clipped_geometries)
        reduced == /\ c.original_vertex_count > 0
                   /\ clipped_vertex_count < c.original_vertex_count
        features_clipped == IF reduced THEN c.features_clipped ELSE 0
    IN  [features_clipped |-> features_clipped,
         lines_clipped |->
             IF c.geometry_type = "line" THEN features_clipped ELSE 0,
         polygons_clipped |->
             IF c.geometry_type = "polygon" THEN features_clipped ELSE 0,
         original_vertex_count |-> c.original_vertex_count,
         clipped_vertex_count |-> clipped_vertex_count,
         empty_geometries_removed |-> Len(c.empty_indices),
         clip_failures |-> c.clip_failures]

ClipInit ==
    /\ NoRun
    /\ NoServices
    /\ plan = Absent
    /\ agg = Absent
    /\ norm = Absent
    /\ clip \in {ClipStart(gdf, t) : gdf \in ClipFrames, t \in {"line", "polygon"}}

DirectIntersection ==
    /\ clip.pc = "feature"
    /\ clip.idx <= Len(clip.gdf)
    /\ \E outcome \in IntersectionOutcomes :
          clip' = OnDirectIntersection(clip, outcome)
    /\ UNCHANGED <<services, run, plan, agg, norm>>

BufferRepair ==
    /\ clip.pc = "attempt2"
    /\ \E outcome \in RepairOutcomes : clip' = OnBufferRepair(clip, outcome)
    /\ UNCHANGED <<services, run, plan, agg, norm>>

DoubleRepair ==
    /\ clip.pc = "attempt3"
    /\ \E outcome \in RepairOutcomes : clip' = OnDoubleRepair(clip, outcome)
    /\ UNCHANGED <<services, run, plan, agg, norm>>

ClipFinish ==
    /\ clip.pc = "feature"
    /\ clip.idx > Len(clip.gdf)
    /\ clip' = [clip EXCEPT !.pc = "done", !.clip_metadata = Some(ClipMetadata(clip))]
    /\ UNCHANGED <<services, run, plan, agg, norm>>

ClipNext ==
    \/ DirectIntersection
    \/ BufferRepair
    \/ DoubleRepair
    \/ ClipFinish

ClipSpec == ClipInit /\ [][ClipNext]_vars

\* ------------------------------------------------------------------ C17
\* The rows that had a geometry and kept it unclipped.
KeptUnclipped(c) ==
    {i \in DOMAIN c.clipped_geometries :
        c.gdf[i] # "empty" /\ c.clipped_geometries[i] = "original"}

\* C17: when per-feature clipping has ended, clip_failures equals the number
\* of non-empty input features whose geometry was kept unclipped.
C17_FailuresCountKeptFeatures ==
    clip.pc = "done" =>
        clip.clip_metadata[1].clip_failures = Cardinality(KeptUnclipped(clip))

\* ------------------------------------------------------------------ C18
\* C18: a feature whose original geometry was kept had all three attempts
\* made on it, in order: direct intersection, buffer(0) repair, make_valid
\* with buffer(0) repair; the attempts of every feature are made in that
\* order, the next one whenever the one before gave no clipped geometry.
C18_GivenUpOnlyAfterThreeAttempts ==
    \A i \in DOMAIN clip.attempts :
        /\ clip.gdf[i] # "empty" =>
              clip.attempts[i] \in {<<1>>, <<1, 2>>, <<1, 2, 3>>}
        /\ i \in KeptUnclipped(clip) => clip.attempts[i] = <<1, 2, 3>>

\* ================================================ run-level aggregation
\* The statistics process_all_layers adds up over metadata.values() once the
\* loop has ended: aggregate_clip_metadata and the counts of the Query
\* Summary.  The percentage aggregate_clip_metadata derives from its two
\* vertex totals is left out.
MaxLayers == 3

\* The clipping statistics of a layer.
ClipStatistics(features, lines, polygons, original, clipped, empties, failures) ==
    [features_clipped |-> features, lines_clipped |-> lines,
     polygons_clipped |-> polygons, original_vertex_count |-> original,
     clipped_vertex_count |-> clipped, empty_geometries_removed |-> empties,
     clip_failures |-> failures]

\* The metadata of a layer as the aggregations read it: a layer that failed,
\* a point layer with features and pages, a clipped line layer, and a
\* polygon layer clipped after a polygon query fell back, with one feature
\* kept unclipped and an incomplete result.
AggMetadatas ==
    {[feature_count |-> 0, query_method |-> "envelope",
      pagination |-> Absent, results_incomplete |-> FALSE, clipping |-> Absent],
     [feature_count |-> 3, query_method |-> "polygon",
      pagination |-> Some([used |-> TRUE, pages_fetched |-> 2]),
      results_incomplete |-> FALSE, clipping |-> Absent],
     [feature_count |-> 2, query_method |-> "envelope",
      pagination |-> Some([used |-> FALSE, pages_fetched |-> 0]),
      results_incomplete |-> FALSE,
      clipping |-> Some(ClipStatistics(2, 2, 0, 10, 7, 1, 0))],
     [feature_count |-> 1, query_method |-> "envelope_fallback",
      pagination |-> Some([used |-> TRUE, pages_fetched |-> 1]),
      results_incomplete |-> TRUE,
      clipping |-> Some(ClipStatistics(1, 0, 1, 5, 4, 0, 1))]}

NoClipTotals ==
    [total_features_clipped |-> 0, total_lines_clipped |-> 0,
     total_polygons_clipped |-> 0, total_original_vertices |-> 0,
     total_clipped_vertices |-> 0, total_empty_removed |-> 0,
     total_clip_failures |-> 0]

\* One turn of the loop of aggregate_clip_metadata that stores the clip
\* failures of the layer in place of adding them.
AddClipDataFailuresStored(totals, meta) ==
    IF meta.clipping = Absent THEN totals
    ELSE LET clip_data == meta.clipping[1]
         IN  [total_features_clipped |->
                  totals.total_features_clipped + clip_data.features_clipped,
              total_lines_clipped |->
                  totals.total_lines_clipped + clip_data.lines_clipped,
              total_polygons_clipped |->
                  totals.total_polygons_clipped + clip_data.polygons_clipped,
              total_original_vertices |->
                  totals.total_original_vertices + clip_data.original_vertex_count,
              total_clipped_vertices |->
                  totals.total_clipped_vertices + clip_data.clipped_vertex_count,
              total_empty_removed |->
                  totals.total_empty_removed + clip_data.empty_geometries_removed,
              total_clip_failures |-> clip_data.clip_failures]

\* One turn of the loop of aggregate_clip_metadata.
AddClipData(totals, meta) ==
    IF meta.clipping = Absent THEN totals
    ELSE LET clip_data == meta.clipping[1]
         IN  [total_features_clipped |->
                  totals.total_features_clipped + clip_data.features_clipped,
              total_lines_clipped |->
                  totals.total_lines_clipped + clip_data.lines_clipped,
              total_polygons_clipped |->
                  totals.total_polygons_clipped + clip_data.polygons_clipped,
              total_original_vertices |->
                  totals.total_original_vertices + clip_data.original_vertex_count,
              total_clipped_vertices |->
                  totals.total_clipped_vertices + clip_data.clipped_vertex_count,
              total_empty_removed |->
                  totals.total_empty_removed + clip_data.empty_geometries_removed,
              total_clip_failures |->
                  totals.total_clip_failures + clip_data.clip_failures]

\* aggregate_clip_metadata(layer_metadata_list): the loop, first layer first.
RECURSIVE AggregateFrom(_, _)
AggregateFrom(totals, layer_metadata_list) ==
    IF layer_metadata_list = <<>> THEN totals
    ELSE AggregateFrom(AddClipData(totals, Head(layer_metadata_list)),
                       Tail(layer_metadata_list))

AggregateClipMetadata(layer_metadata_list) ==
    AggregateFrom(NoClipTotals, layer_metadata_list)

\* The counts of the Query Summary over a list of layer metadata, with the
\* pages of the pagination line.
RunCounts(layer_metadata_list) ==
    [total_pages |->
        Sum([i \in DOMAIN layer_metadata_list |->
                IF layer_metadata_list[i].pagination = Absent THEN 0
                ELSE layer_metadata_list[i].pagination[1].pages_fetched],
            DOMAIN layer_metadata_list)]
    @@ QuerySummary(layer_metadata_list)

AggInit ==
    /\ NoRun
    /\ NoServices
    /\ plan = Absent
    /\ clip = Absent
    /\ norm = Absent
    /\ agg \in {[pc |-> "input", layer_metadata_list |-> l,
                 clip_stats |-> Absent, counts |-> Absent] :
                    l \in SeqsUpTo(AggMetadatas, MaxLayers)}

\* process_all_layers, lines 226-295: the statistics of the run.
Aggregate ==
    /\ agg.pc = "input"
    /\ agg' = [agg EXCEPT
                !.pc = "done",
                !.clip_stats = Some(AggregateClipMetadata(agg.layer_metadata_list)),
                !.counts = Some(RunCounts(agg.layer_metadata_list))]
    /\ UNCHANGED <<services, run, plan, clip, norm>>

AggNext == Aggregate

AggSpec == AggInit /\ [][AggNext]_vars

\* ------------------------------------------------------------------ C19
\* The sum over the layers of a list of one clipping statistic, a layer
\* without clipping statistics counting as zero.
SumOfStatistic(l, field) ==
    Sum([i \in DOMAIN l |->
            IF l[i].clipping = Absent THEN 0 ELSE l[i].clipping[1][field]],
        DOMAIN l)

\* The number of layers of a list for which P holds.
NumberOf(l, P(_)) == Cardinality({i \in DOMAIN l : P(l[i])})

\* The list l in the order p.
Reordered(l, p) == [i \in DOMAIN l |-> l[p[i]]]

\* C19: every total of aggregate_clip_metadata is the sum of the layers'
\* values, a layer without clipping statistics counting as zero; the
\* feature, query-method, pagination and incomplete-layer counts of the
\* run are the sums and numbers of the layers concerned; and every order of
\* the layers gives the same totals and counts.
C19_TotalsAreOrderFreeSums ==
    agg.pc = "done" =>
        LET l == agg.layer_metadata_list
            t == agg.clip_stats[1]
            c == agg.counts[1]
        IN  /\ t.total_features_clipped = SumOfStatistic(l, "features_clipped")
            /\ t.total_lines_clipped = SumOfStatistic(l, "lines_clipped")
            /\ t.total_polygons_clipped = SumOfStatistic(l, "polygons_clipped")
            /\ t.total_original_vertices = SumOfStatistic(l, "original_vertex_count")
            /\ t.total_clipped_vertices = SumOfStatistic(l, "clipped_vertex_count")
            /\ t.total_empty_removed = SumOfStatistic(l, "empty_geometries_removed")
            /\ t.total_clip_failures = SumOfStatistic(l, "clip_failures")
            /\ c.total_features = Sum([i \in DOMAIN l |-> l[i].feature_count], DOMAIN l)
            /\ c.layers_with_data = NumberOf(l, LAMBDA m : m.feature_count > 0)
            /\ c.polygon_queries = NumberOf(l, LAMBDA m : m.query_method = "polygon")
            /\ c.envelope_queries = NumberOf(l, LAMBDA m : m.query_method = "envelope")
            /\ c.fallback_queries =
                  NumberOf(l, LAMBDA m : m.query_method = "envelope_fallback")
            /\ c.layers_with_pagination =
                  NumberOf(l, LAMBDA m : m.pagination # Absent /\ m.pagination[1].used)
            /\ c.layers_incomplete = NumberOf(l, LAMBDA m : m.results_incomplete)
            /\ \A p \in Permutations(DOMAIN l) :
                  /\ AggregateClipMetadata(Reordered(l, p)) = t
                  /\ RunCounts(Reordered(l, p)) = c

\* The statistics of three layers, the one in the middle without clipping
\* statistics, the other two with different ones.
C19_Witness ==
    /\ agg.pc = "done"
    /\ Len(agg.layer_metadata_list) = 3
    /\ agg.layer_metadata_list[1].clipping # Absent
    /\ agg.layer_metadata_list[2].clipping = Absent
    /\ agg.layer_metadata_list[3].clipping # Absent
    /\ agg.layer_metadata_list[1] # agg.layer_metadata_list[3]
    /\ agg.clip_stats[1].total_clip_failures = 1
    /\ agg.clip_stats[1].total_original_vertices = 15

\* ============================================= input geometry pipeline
\* process_input_geometry on a file that was loaded and passed validation,
\* and create_clip_boundary on the area it yields.  Distances are whole
\* feet and whole miles, from -1 up.
MaxBufferFeet == 2
MaxBufferMiles == 1

FeetPerMile == 5280

\* What the libraries may do where the pipeline provides for it: work, fail
\* to repair a geometry (repair_invalid_geometry raises), repair a
\* degenerate polygon into the lines it collapses to (make_valid), or fail
\* to transform to or from the projected system (buffer_geometry_feet).
LibraryOutcomes == {"ok", "repair_fails", "repair_to_line", "transform_fails"}

\* The kinds of geometry in the input file: any of point, line and polygon.
InputKinds == (SUBSET {"point", "line", "polygon"}) \ {{}}

\* detect_geometry_type(gdf).
DetectGeometryType(kinds) ==
    IF Cardinality(kinds) > 1 THEN "mixed" ELSE CHOOSE k \in kinds : TRUE

\* A call that raised ValueError with this message, or returned this value.
Raised(message) == [raised |-> "ValueError", message |-> message, value |-> Absent]
Returned(value) == [raised |-> None, message |-> None, value |-> Some(value)]

\* A geometry is the set of its pieces.  A piece remembers the kind of the
\* input features it comes from, the kind of geometry it is now, and by how
\* many feet it was buffered in all.
Piece(origin, kind, buffer_feet) ==
    [origin |-> origin, kind |-> kind, buffer_feet |-> buffer_feet]

\* The features of one kind as read from the file.
Features(kind) == {Piece(kind, kind, 0)}

\* unary_union(geoms) and GeometryCollection(geoms).
UnaryUnion(geoms) == UNION geoms

\* geom.geom_type, as far as the pipeline asks: the kinds of its pieces.
GeomKinds(geom) == {p.kind : p \in geom}

\* repair_invalid_geometry(geom).  A degenerate polygon is repaired into
\* lines; the result of a buffer is valid and comes back as it is.
RepairInvalidGeometry(geom, lib) ==
    IF lib = "repair_fails" THEN Raised("Cannot repair invalid geometry")
    ELSE IF lib = "repair_to_line"
    THEN Returned({IF p.kind = "polygon" /\ p.buffer_feet = 0
                   THEN [p EXCEPT !.kind = "line"]
                   ELSE p : p \in geom})
    ELSE Returned(geom)

\* buffer_geometry_feet that lets a distance of zero through.
BufferGeometryFeetFromZero(geom, buffer_feet, lib) ==
    IF buffer_feet < 0 THEN Raised("Buffer distance must be positive")
    ELSE IF lib = "transform_fails" THEN Raised("CRS transformation failed")
    ELSE Returned({Piece(p.origin, "polygon", p.buffer_feet + buffer_feet) : p \in geom})

\* buffer_geometry_feet(geom, buffer_feet, original_crs): every piece grows
\* by buffer_feet and is a polygon afterwards.
BufferGeometryFeet(geom, buffer_feet, lib) ==
    IF buffer_feet <= 0 THEN Raised("Buffer distance must be positive")
    ELSE IF lib = "transform_fails" THEN Raised("CRS transformation failed")
    ELSE Returned({Piece(p.origin, "polygon", p.buffer_feet + buffer_feet) : p \in geom})

\* _process_mixed_geometries that buffers the polygons with the rest.
ProcessMixedGeometriesBuffersAll(kinds, buffer_distance_feet, lib) ==
    LET all == UnaryUnion({Features(k) : k \in kinds})
        buffered == BufferGeometryFeet(all, buffer_distance_feet, lib)
    IN  IF lib = "repair_fails" THEN Raised("Cannot repair invalid geometry")
        ELSE IF buffered.raised # None THEN buffered
        ELSE Returned([geometry |-> buffered.value[1],
                       buffer_applied |-> TRUE,
                       original_gdf |-> Some(all)])

\* _process_mixed_geometries(gdf, buffer_distance_feet, original_crs): the
\* polygons go in as they are, the points and the lines are buffered, and
\* the points and lines from before the buffer are kept for display.
ProcessMixedGeometries(kinds, buffer_distance_feet, lib) ==
    LET polygon_union == RepairInvalidGeometry(UnaryUnion({Features("polygon")}), lib)
        point_union == RepairInvalidGeometry(UnaryUnion({Features("point")}), lib)
        line_union == RepairInvalidGeometry(UnaryUnion({Features("line")}), lib)
        buffered_points ==
            BufferGeometryFeet(point_union.value[1], buffer_distance_feet, lib)
        buffered_lines ==
            BufferGeometryFeet(line_union.value[1], buffer_distance_feet, lib)
        all_polygons ==
            (IF "polygon" \in kinds THEN {polygon_union.value[1]} ELSE {})
            \cup (IF "point" \in kinds THEN {buffered_points.value[1]} ELSE {})
            \cup (IF "line" \in kinds THEN {buffered_lines.value[1]} ELSE {})
        original_geometries ==
            (IF "point" \in kinds THEN {point_union.value[1]} ELSE {})
            \cup (IF "line" \in kinds THEN {line_union.value[1]} ELSE {})
        buffer_applied == "point" \in kinds \/ "line" \in kinds
        unified == RepairInvalidGeometry(UnaryUnion(all_polygons), lib)
    IN  IF "polygon" \in kinds /\ polygon_union.raised # None THEN polygon_union
        ELSE IF "point" \in kinds /\ point_union.raised # None THEN point_union
        ELSE IF "point" \in kinds /\ buffered_points.raised # None THEN buffered_points
        ELSE IF "line" \in kinds /\ line_union.raised # None THEN line_union
        ELSE IF "line" \in kinds /\ buffered_lines.raised # None THEN buffered_lines
        ELSE IF all_polygons = {}
        THEN Raised("No valid geometries found after processing mixed types")
        ELSE IF unified.raised # None THEN unified
        ELSE Returned([geometry |-> unified.value[1],
                       buffer_applied |-> buffer_applied,
                       original_gdf |->
                           IF original_geometries # {}
                           THEN Some(UnaryUnion(original_geometries))
                           ELSE Absent])

\* The single-kind path that buffers by the detected kind alone and keeps
\* no geometry for display.
ProcessSingleGeometryByDetectedKind(kinds, buffer_distance_feet, lib) ==
    LET repaired == RepairInvalidGeometry(UnaryUnion({Features(k) : k \in kinds}), lib)
        buffered == BufferGeometryFeet(repaired.value[1], buffer_distance_feet, lib)
    IN  IF repaired.raised # None THEN repaired
        ELSE IF DetectGeometryType(kinds) \in {"point", "line"}
        THEN IF buffered.raised # None THEN buffered
             ELSE Returned([geometry |-> buffered.value[1],
                            buffer_applied |-> TRUE,
                            original_gdf |-> Absent])
        ELSE Returned([geometry |-> repaired.value[1],
                       buffer_applied |-> FALSE,
                       original_gdf |-> Absent])

\* process_input_geometry, steps 5 to 9 for an input of one kind: dissolve,
\* repair, and buffer when the detected kind is point or line or when the
\* repaired geometry is one.
ProcessSingleGeometry(kinds, buffer_distance_feet, lib) ==
    LET geom_type == DetectGeometryType(kinds)
        repaired == RepairInvalidGeometry(UnaryUnion({Features(k) : k \in kinds}), lib)
        dissolved_geom == repaired.value[1]
        needs_buffer == geom_type \in {"point", "line"}
        is_point_or_line == GeomKinds(dissolved_geom) \subseteq {"point", "line"}
        buffered == BufferGeometryFeet(dissolved_geom, buffer_distance_feet, lib)
    IN  IF repaired.raised # None THEN repaired
        ELSE IF needs_buffer \/ is_point_or_line
        THEN IF buffered.raised # None THEN buffered
             ELSE Returned([geometry |-> buffered.value[1],
                            buffer_applied |-> TRUE,
                            original_gdf |-> Some(dissolved_geom)])
        ELSE Returned([geometry |-> dissolved_geom,
                       buffer_applied |-> FALSE,
                       original_gdf |-> Absent])

\* What process_input_geometry returns: the area, the metadata as far as
\* buffering goes, and the geometry kept for display.
Normalized(kinds, processed, buffer_distance_feet) ==
    Returned([geometry |-> processed.geometry,
              detected_geometry_type |-> DetectGeometryType(kinds),
              buffer_applied |-> processed.buffer_applied,
              buffer_distance_feet |->
                  IF processed.buffer_applied
                  THEN Some(buffer_distance_feet) ELSE Absent,
              original_gdf |-> processed.original_gdf])

\* process_input_geometry from step 4 on.
ProcessInputGeometry(kinds, buffer_distance_feet, lib) ==
    LET processed ==
            IF DetectGeometryType(kinds) = "mixed"
            THEN ProcessMixedGeometries(kinds, buffer_distance_feet, lib)
            ELSE ProcessSingleGeometry(kinds, buffer_distance_feet, lib)
        final == RepairInvalidGeometry(processed.value[1].geometry, lib)
    IN  IF processed.raised # None THEN processed
        ELSE IF final.raised # None THEN final
        ELSE Normalized(kinds,
                        [processed.value[1] EXCEPT !.geometry = final.value[1]],
                        buffer_distance_feet)

\* create_clip_boundary(input_geom, buffer_miles, original_crs).
CreateClipBoundary(input_geom, buffer_miles, lib) ==
    IF buffer_miles <= 0 THEN Raised("Buffer distance must be positive")
    ELSE BufferGeometryFeet(input_geom, buffer_miles * FeetPerMile, lib)

NormInit ==
    /\ NoRun
    /\ NoServices
    /\ plan = Absent
    /\ clip = Absent
    /\ agg = Absent
    /\ norm \in [pc : {"input"},
                 kinds : InputKinds,
                 original_crs : {"EPSG:4326", "EPSG:5070"},
                 buffer_distance_feet : -1..MaxBufferFeet,
                 lib : {"ok"},
                 result : {Absent},
                 buffer_miles : {0},
                 boundary : {Absent}]

\* The pipeline runs on the input.
Normalize ==
    /\ norm.pc = "input"
    /\ \E lib \in LibraryOutcomes :
          LET result == ProcessInputGeometry(norm.kinds, norm.buffer_distance_feet, lib)
          IN  norm' = [norm EXCEPT
                          !.pc = IF result.raised = None THEN "normalized" ELSE "failed",
                          !.lib = lib,
                          !.result = Some(result)]
    /\ UNCHANGED <<services, run, plan, clip, agg>>

\* The clip boundary of the normalized area is built.
BuildClipBoundary ==
    /\ norm.pc = "normalized"
    /\ \E buffer_miles \in -1..MaxBufferMiles, lib \in {"ok", "transform_fails"} :
          norm' = [norm EXCEPT
                      !.pc = "boundary",
                      !.buffer_miles = buffer_miles,
                      !.boundary = Some(CreateClipBoundary(
                                            norm.result[1].value[1].geometry,
                                            buffer_miles, lib))]
    /\ UNCHANGED <<services, run, plan, clip, agg>>

NormNext ==
    \/ Normalize
    \/ BuildClipBoundary

NormSpec == NormInit /\ [][NormNext]_vars

\* ------------------------------------------------------------------ C20
\* The call ended in ValueError and yielded nothing.
FailedWithValueError(call) ==
    call # Absent /\ call[1].raised = "ValueError" /\ call[1].value = Absent

\* The input is buffered on its way through the pipeline: it has points or
\* lines, or it is a polygon input that the repair turned into lines.
IsBuffered(kinds, lib) == kinds # {"polygon"} \/ lib = "repair_to_line"

\* C20, as claimed: normalizing any input, point, line, polygon or mixed,
\* with a buffer distance <= 0 fails with ValueError and yields no area,
\* and so does building a clip boundary with buffer_miles <= 0.
C20_NonPositiveBufferAlwaysFails ==
    /\ (norm.pc # "input" /\ norm.buffer_distance_feet <= 0) =>
          FailedWithValueError(norm.result)
    /\ (norm.pc = "boundary" /\ norm.buffer_miles <= 0) =>
          FailedWithValueError(norm.boundary)

\* C20, amended: normalizing an input that the pipeline buffers (a point,
\* line or mixed input, or a polygon input repaired into lines) with a
\* buffer distance <= 0 fails with ValueError and yields no area; a polygon
\* input that stays a polygon is not buffered, so what its normalization
\* yields does not depend on the buffer distance; building a clip boundary
\* with buffer_miles <= 0 fails with ValueError.
C20_NonPositiveBufferFailsWhereBuffered ==
    /\ (/\ norm.pc # "input"
        /\ norm.buffer_distance_feet <= 0
        /\ IsBuffered(norm.kinds, norm.lib)) =>
          FailedWithValueError(norm.result)
    /\ (/\ norm.pc # "input"
        /\ ~IsBuffered(norm.kinds, norm.lib)
        /\ norm.result[1].raised = None) =>
          /\ ~norm.result[1].value[1].buffer_applied
          /\ norm.result[1].value[1].original_gdf = Absent
    /\ (norm.pc # "input" /\ ~IsBuffered(norm.kinds, norm.lib)) =>
          \A d \in -1..MaxBufferFeet :
              ProcessInputGeometry(norm.kinds, d, norm.lib) = norm.result[1]
    /\ (norm.pc = "boundary" /\ norm.buffer_miles <= 0) =>
          FailedWithValueError(norm.boundary)

\* A polygon and a point with a buffer distance of zero: the polygon needs
\* no buffer, the point does, and the input is refused.
C20_Witness ==
    /\ norm.pc = "failed"
    /\ norm.kinds = {"polygon", "point"}
    /\ norm.buffer_distance_feet = 0
    /\ norm.lib = "ok"
    /\ norm.result[1].message = "Buffer distance must be positive"

\* ------------------------------------------------------------------ C21
\* What a call of process_input_geometry that returned has returned.
NormValue == norm.result[1].value[1]
NormReturned == norm.pc # "input" /\ norm.result[1].raised = None

\* C21, as claimed: process_input_geometry returns a geometry for display
\* exactly when buffer_applied is true in the metadata, on both paths, and
\* for a polygon input buffer_applied is false and no geometry for display
\* is returned.
C21_OriginalIffBufferedNeverForPolygons ==
    NormReturned =>
        /\ (NormValue.original_gdf # Absent) <=> NormValue.buffer_applied
        /\ norm.kinds = {"polygon"} =>
              ~NormValue.buffer_applied /\ NormValue.original_gdf = Absent

\* C21, amended: process_input_geometry returns a geometry for display
\* exactly when buffer_applied is true in the metadata, on both paths; for
\* a polygon input that is still a polygon after the repair buffer_applied
\* is false and no geometry for display is returned, while a polygon input
\* that the repair turned into lines is buffered like a line input and the
\* lines are returned for display.
C21_OriginalIffBufferedPolygonsUnlessCollapsed ==
    NormReturned =>
        /\ (NormValue.original_gdf # Absent) <=> NormValue.buffer_applied
        /\ (norm.kinds = {"polygon"} /\ norm.lib # "repair_to_line") =>
              ~NormValue.buffer_applied /\ NormValue.original_gdf = Absent
        /\ (norm.kinds = {"polygon"} /\ norm.lib = "repair_to_line") =>
              /\ NormValue.buffer_applied
              /\ NormValue.original_gdf = Some({Piece("polygon", "line", 0)})
              /\ NormValue.geometry =
                    {Piece("polygon", "polygon", norm.buffer_distance_feet)}

\* A polygon file whose polygon the repair turned into lines came back
\* buffered by two feet.
C21_Witness ==
    /\ norm.pc = "normalized"
    /\ norm.kinds = {"polygon"}
    /\ norm.lib = "repair_to_line"
    /\ norm.buffer_distance_feet = 2
    /\ NormValue.buffer_applied
    /\ NormValue.original_gdf # Absent

\* ------------------------------------------------------------------ C22
\* Where the pieces of a geometry come from and how far each was buffered.
Provenance(geom) == {<<p.origin, p.buffer_feet>> : p \in geom}

\* C22: on the mixed path the area is the union of the polygon features,
\* not buffered, with the point features and the line features, each
\* buffered by the buffer distance; no polygon feature is buffered; and the
\* geometry for display holds the points and lines from before the buffer
\* and no polygon.
C22_MixedAreaIsPolygonsPlusBufferedRest ==
    (NormReturned /\ DetectGeometryType(norm.kinds) = "mixed") =>
        /\ Provenance(NormValue.geometry) =
              {<<k, 0>> : k \in norm.kinds \cap {"polygon"}}
              \cup {<<k, norm.buffer_distance_feet>> : k \in norm.kinds \ {"polygon"}}
        /\ \A p \in NormValue.geometry : p.origin = "polygon" => p.buffer_feet = 0
        /\ NormValue.original_gdf =
              Some({Piece(k, k, 0) : k \in norm.kinds \ {"polygon"}})

\* A polygon and a point with a buffer of one foot: the area is the polygon
\* as it was with the buffered point, and the point is kept for display.
C22_Witness ==
    /\ norm.pc = "normalized"
    /\ norm.kinds = {"polygon", "point"}
    /\ norm.buffer_distance_feet = 1
    /\ norm.lib = "ok"
    /\ NormValue.geometry = {Piece("polygon", "polygon", 0), Piece("point", "polygon", 1)}
    /\ NormValue.original_gdf = Some({Piece("point", "point", 0)})

\* ===================================================== process_file_task
\* One run of process_file_task: the input file goes through
\* process_input_geometry, the area is held against its limit, the layers
\* are queried and the outputs are generated.  Whatever is raised on the way
\* ends the run with a failure result.

\* The input file as load_geometry_file finds it.  What is in a zip matters
\* for a zip only.
Files ==
    {f \in [exists : BOOLEAN,
            suffix : {".zip", ".geojson"},
            zip_valid : BOOLEAN,
            shp_files : 0..2,
            readable : BOOLEAN,
            feature_count : 0..2,
            crs : {None, "EPSG:4326", "EPSG:5070"},
            null_geometries : BOOLEAN] :
        f.suffix # ".zip" => f.zip_valid /\ f.shp_files = 1}

\* A call that raised this exception with this message.
RaisedAs(exception, message) ==
    [raised |-> exception, message |-> message, value |-> Absent]

\* load_geometry_file that hands on a file without features.
LoadGeometryFileKeepsEmpty(f) ==
    IF ~f.exists THEN RaisedAs("FileNotFoundError", "Input file not found")
    ELSE IF f.suffix = ".zip" /\ ~f.zip_valid
    THEN Raised("Invalid ZIP file - file appears to be corrupted")
    ELSE IF f.suffix = ".zip" /\ f.shp_files = 0
    THEN Raised("Failed to read geospatial file: No shapefile (.shp) found in ZIP archive")
    ELSE IF ~f.readable THEN Raised("Failed to read geospatial file")
    ELSE IF f.crs = None THEN Raised("Input file has no Coordinate Reference System")
    ELSE Returned([feature_count |-> f.feature_count,
                   crs |-> f.crs,
                   null_geometries |-> f.null_geometries])

\* load_geometry_file(file_path).  The ValueError raised for a zip without
\* a shapefile is raised inside the try and wrapped like any read failure.
LoadGeometryFile(f) ==
    IF ~f.exists THEN RaisedAs("FileNotFoundError", "Input file not found")
    ELSE IF f.suffix = ".zip" /\ ~f.zip_valid
    THEN Raised("Invalid ZIP file - file appears to be corrupted")
    ELSE IF f.suffix = ".zip" /\ f.shp_files = 0
    THEN Raised("Failed to read geospatial file: No shapefile (.shp) found in ZIP archive")
    ELSE IF ~f.readable THEN Raised("Failed to read geospatial file")
    ELSE IF f.feature_count = 0 THEN Raised("Input file contains no features")
    ELSE IF f.crs = None THEN Raised("Input file has no Coordinate Reference System")
    ELSE Returned([feature_count |-> f.feature_count,
                   crs |-> f.crs,
                   null_geometries |-> f.null_geometries])

\* validate_input_geometry(gdf), as process_input_geometry uses it.
ValidateInputGeometry(gdf) ==
    IF gdf.feature_count = 0
    THEN Raised("Input validation failed: GeoDataFrame contains no features")
    ELSE IF gdf.crs = None
    THEN Raised("Input validation failed: GeoDataFrame has no CRS defined")
    ELSE IF gdf.null_geometries
    THEN Raised("Input validation failed: GeoDataFrame contains null geometries")
    ELSE Returned(gdf)

\* process_input_geometry(file_path, buffer_distance_feet) from step 1 on.
ProcessInputFile(f, kinds, buffer_distance_feet, lib) ==
    LET loaded == LoadGeometryFile(f)
        valid == ValidateInputGeometry(loaded.value[1])
    IN  IF loaded.raised # None THEN loaded
        ELSE IF valid.raised # None THEN valid
        ELSE ProcessInputGeometry(kinds, buffer_distance_feet, lib)

\* What process_file_task returns.
TaskFailure(error) == [success |-> FALSE, error |-> error]
TaskSuccess == [success |-> TRUE, error |-> None]

TaskInit ==
    /\ NoRun
    /\ plan = Absent
    /\ clip = Absent
    /\ agg = Absent
    /\ norm = Absent
    /\ jobs = Absent
    /\ quota = Absent
    /\ stream = Absent
    /\ task \in [pc : {"start"},
                 file : Files,
                 kinds : InputKinds,
                 buffer_distance_feet : {0, 1},
                 loaded : {Absent},
                 polygon_gdf : {Absent},
                 failed_at : {None},
                 queries : {0},
                 layer_results : {Absent},
                 result : {Absent}]

\* Lines 238-243: process_input_geometry loads and normalizes the input.
ProcessInput ==
    /\ task.pc = "start"
    /\ \E lib \in LibraryOutcomes :
          LET loaded == LoadGeometryFile(task.file)
              processed == ProcessInputFile(task.file, task.kinds,
                                            task.buffer_distance_feet, lib)
          IN  task' = [task EXCEPT
                  !.loaded = Some(loaded),
                  !.polygon_gdf = processed.value,
                  !.pc = IF processed.raised = None THEN "area" ELSE "failed",
                  !.failed_at =
                      IF processed.raised = None THEN None
                      ELSE IF loaded.raised # None THEN "loading"
                      ELSE "normalization",
                  !.result = IF processed.raised = None THEN Absent
                             ELSE Some(TaskFailure(processed.message))]
    /\ UNCHANGED <<run, units, jobs, quota, stream>>

\* Lines 245-255: the area of the normalized input against the limit.
CheckArea ==
    /\ task.pc = "area"
    /\ \E over_limit \in BOOLEAN :
          task' = [task EXCEPT
                      !.pc = IF over_limit THEN "failed" ELSE "layers",
                      !.failed_at = IF over_limit THEN "area" ELSE None,
                      !.result = IF over_limit
                                 THEN Some(TaskFailure("Input area exceeds maximum allowed"))
                                 ELSE Absent]
    /\ UNCHANGED <<run, units, jobs, quota, stream>>

\* Lines 307-311: process_all_layers is called with a progress callback.
\* The process_all_layers of core/layer_processor.py takes none, so that the
\* call raises TypeError; one that takes it queries the layers.
QueryAllLayers ==
    /\ task.pc = "layers"
    /\ \E layers \in 0..MaxLayers, takes_callback \in BOOLEAN :
          task' = IF takes_callback
                  THEN [task EXCEPT !.pc = "outputs",
                                    !.queries = layers,
                                    !.layer_results = Some(layers)]
                  ELSE [task EXCEPT
                           !.pc = "failed",
                           !.failed_at = "layers",
                           !.result = Some(TaskFailure("unexpected keyword argument"))]
    /\ UNCHANGED <<run, units, jobs, quota, stream>>

\* Lines 313-505: map, reports, uploads and the zip, then the result.
GenerateOutputs ==
    /\ task.pc = "outputs"
    /\ \E raises \in BOOLEAN :
          task' = [task EXCEPT
                      !.pc = IF raises THEN "failed" ELSE "done",
                      !.failed_at = IF raises THEN "outputs" ELSE None,
                      !.result = IF raises THEN Some(TaskFailure("output generation failed"))
                                 ELSE Some(TaskSuccess)]
    /\ UNCHANGED <<run, units, jobs, quota, stream>>

TaskNext ==
    \/ ProcessInput
    \/ CheckArea
    \/ QueryAllLayers
    \/ GenerateOutputs

TaskSpec == TaskInit /\ [][TaskNext]_vars

\* ------------------------------------------------------------------ C23
\* The file is one that cannot be loaded: it is missing, a corrupt zip, a
\* zip without a shapefile, without features or without a CRS.
Unloadable(f) ==
    \/ ~f.exists
    \/ f.suffix = ".zip" /\ ~f.zip_valid
    \/ f.suffix = ".zip" /\ f.shp_files = 0
    \/ f.feature_count = 0
    \/ f.crs = None

\* C23: loading a file that is missing, a corrupt zip, a zip without a
\* shapefile, without features or without a CRS fails with an error and
\* yields no geometry; and after a failure of loading or of normalization
\* the run has issued no layer query, has no layer results and has ended
\* with a failure result.
C23_LoadFailuresEndTheRun ==
    /\ (task.pc # "start" /\ Unloadable(task.file)) =>
          /\ task.loaded[1].raised \in {"FileNotFoundError", "ValueError"}
          /\ task.loaded[1].value = Absent
          /\ task.polygon_gdf = Absent
          /\ task.failed_at = "loading"
    /\ task.failed_at \in {"loading", "normalization"} =>
          /\ task.pc = "failed"
          /\ task.queries = 0
          /\ task.layer_results = Absent
          /\ task.polygon_gdf = Absent
          /\ task.result # Absent /\ ~task.result[1].success
    /\ (task.queries > 0 \/ task.layer_results # Absent) =>
          task.loaded[1].raised = None /\ task.polygon_gdf # Absent

\* A readable zip with a shapefile in it that has no features: the run has
\* failed at loading and nothing was queried.
C23_Witness ==
    /\ task.pc = "failed"
    /\ task.file.exists /\ task.file.suffix = ".zip" /\ task.file.zip_valid
    /\ task.file.shp_files = 1 /\ task.file.readable
    /\ task.file.feature_count = 0
    /\ task.loaded[1].message = "Input file contains no features"
    /\ task.queries = 0
    /\ ~task.result[1].success

\* ------------------------------------------------------------------ C24
\* The response to the primary request that the call went on with: the last
\* polygon or envelope request that was answered.
PrimaryResponse(f) ==
    Last(SelectSeq(f.log, LAMBDA e : e.req \in {"polygon", "envelope"} /\ e.kind = "ok"))

\* The call started to paginate and the pagination ended before it had
\* fetched a page.
StoppedBeforeFirstPage(f) ==
    /\ f.pc = "returned"
    /\ f.metadata.pagination # Absent
    /\ f.metadata.pagination[1].used
    /\ f.metadata.pagination[1].pages_fetched = 0
    /\ f.metadata.pagination[1].stopped_reason # None

\* C24 as claimed: when the first response had features and the pagination
\* that follows stops before its first page (error payload, request error,
\* timeout, or no time left), the layer result is built from at least the
\* features of the first response, not from an empty list.
C24_PaginationKeepsFirstResponse ==
    StoppedBeforeFirstPage(fr) =>
        /\ Len(fr.all_esri_features) >= Len(PrimaryResponse(fr).features)
        /\ fr.metadata.error = None
        /\ fr.gdf # Absent
        /\ Len(fr.gdf[1]) >=
              Len(FinalFeatures(PrimaryResponse(fr).features, fr.geometry_type))

\* ================================================= job slots of one IP
\* The /api/process requests of one client IP from check_concurrent_limit
\* on, each with the event stream of its job, and the entry of that IP in
\* active_jobs_dict.  The requests are served by any container, so that the
\* get and the set of one check or release are steps of their own between
\* which other requests run.
MAX_CONCURRENT_JOBS_PER_IP == 3

\* One request more than the limit admits.
Jobs == 1..(MAX_CONCURRENT_JOBS_PER_IP + 1)

\* dict.get(key, default) on an entry that is Absent until it is first set.
DictGet(entry, default) == IF entry = Absent THEN default ELSE entry[1]

\* A request before check_concurrent_limit.  holds: the request has counted
\* itself in the dict and has not yet counted itself out; released: the
\* calls of release_job_slot its stream has made.
NewJob == [pc |-> "check", read |-> 0, holds |-> FALSE, released |-> 0,
           reraise |-> FALSE]

\* The request is admitted and its stream has not ended: the job is running
\* as far as the endpoint knows.
JobRunning(job) == job.pc \in {"initial", "polling", "progress"}

JobsInit ==
    /\ NoRun
    /\ plan = Absent
    /\ clip = Absent
    /\ agg = Absent
    /\ norm = Absent
    /\ task = Absent
    /\ quota = Absent
    /\ stream = Absent
    /\ jobs = [active |-> Absent, job |-> [j \in Jobs |-> NewJob]]

\* check_concurrent_limit, lines 644-649 and 653-655: the get.  At the limit
\* the request is refused; when the dict cannot be reached the request is
\* let in without being counted.
CheckConcurrentLimitGet(j) ==
    /\ jobs.job[j].pc = "check"
    /\ \E dict_available \in BOOLEAN :
          LET active == DictGet(jobs.active, 0)
          IN  jobs' = [jobs EXCEPT !.job[j] =
                  IF ~dict_available THEN [@ EXCEPT !.pc = "initial"]
                  ELSE IF active >= MAX_CONCURRENT_JOBS_PER_IP
                  THEN [@ EXCEPT !.pc = "rejected"]
                  ELSE [@ EXCEPT !.pc = "acquiring", !.read = active]]
    /\ UNCHANGED <<run, units, task, quota, stream>>

\* check_concurrent_limit, lines 650-652: the set, and the request goes on
\* to its StreamingResponse.
CheckConcurrentLimitSet(j) ==
    /\ jobs.job[j].pc = "acquiring"
    /\ jobs' = [jobs EXCEPT
                   !.active = Some(jobs.job[j].read + 1),
                   !.job[j] = [@ EXCEPT !.pc = "initial", !.read = 0, !.holds = TRUE]]
    /\ UNCHANGED <<run, units, task, quota, stream>>

\* event_generator, line 947 to the first await: the initial event is taken
\* and the generator goes into the try and spawns the task.
StartPolling(j) ==
    /\ jobs.job[j].pc = "initial"
    /\ jobs' = [jobs EXCEPT !.job[j].pc = "polling"]
    /\ UNCHANGED <<run, units, task, quota, stream>>

\* The client goes away while the generator is suspended at a yield (lines
\* 947, 988, 1018, 1020, 1042, 1075, 1090).  The generator is not resumed;
\* it is closed with GeneratorExit at that yield, which no except clause of
\* lines 1082-1090 catches.
CloseAtYield(j) ==
    /\ jobs.job[j].pc \in {"initial", "progress", "final"}
    /\ jobs' = [jobs EXCEPT !.job[j].pc = "ended"]
    /\ UNCHANGED <<run, units, task, quota, stream>>

\* Lines 1002-1021: handle.get returns the result of the task, success or
\* failure, and the slot is released before the last event.
PollResult(j) ==
    /\ jobs.job[j].pc = "polling"
    /\ jobs' = [jobs EXCEPT !.job[j].pc = "release_get"]
    /\ UNCHANGED <<run, units, task, quota, stream>>

\* Lines 1022-1043: handle.get raises FunctionTimeoutError.
PollFunctionTimeout(j) ==
    /\ jobs.job[j].pc = "polling"
    /\ jobs' = [jobs EXCEPT !.job[j].pc = "release_get"]
    /\ UNCHANGED <<run, units, task, quota, stream>>

\* Lines 1044-1080: the task is still running and a progress event is
\* yielded.
PollProgress(j) ==
    /\ jobs.job[j].pc = "polling"
    /\ jobs' = [jobs EXCEPT !.job[j].pc = "progress"]
    /\ UNCHANGED <<run, units, task, quota, stream>>

\* The progress event is taken and the generator polls again.
ResumePolling(j) ==
    /\ jobs.job[j].pc = "progress"
    /\ jobs' = [jobs EXCEPT !.job[j].pc = "polling"]
    /\ UNCHANGED <<run, units, task, quota, stream>>

\* Lines 1082-1086: the client goes away while the generator sleeps; the
\* CancelledError is caught, the slot released and the error raised again.
CancelledWhilePolling(j) ==
    /\ jobs.job[j].pc = "polling"
    /\ jobs' = [jobs EXCEPT !.job[j] = [@ EXCEPT !.pc = "release_get", !.reraise = TRUE]]
    /\ UNCHANGED <<run, units, task, quota, stream>>

\* Lines 1087-1090: spawn or handle.get raises something else.
PollRaises(j) ==
    /\ jobs.job[j].pc = "polling"
    /\ jobs' = [jobs EXCEPT !.job[j].pc = "release_get"]
    /\ UNCHANGED <<run, units, task, quota, stream>>

\* Where the generator is after release_job_slot has returned: at the yield
\* of its last event, or gone when it raises the CancelledError again.
AfterRelease(job) ==
    [job EXCEPT !.pc = IF job.reraise THEN "ended" ELSE "final",
                !.read = 0, !.reraise = FALSE,
                !.released = job.released + 1]

\* release_job_slot, lines 659-661 and 665-666: the get.  When the dict
\* cannot be reached the call passes.
ReleaseJobSlotGet(j) ==
    /\ jobs.job[j].pc = "release_get"
    /\ \E dict_available \in BOOLEAN :
          jobs' = [jobs EXCEPT !.job[j] =
              IF dict_available
              THEN [@ EXCEPT !.pc = "release_set", !.read = DictGet(jobs.active, 1)]
              ELSE AfterRelease(@)]
    /\ UNCHANGED <<run, units, task, quota, stream>>

\* release_job_slot, lines 662-664: the set.
ReleaseJobSlotSet(j) ==
    /\ jobs.job[j].pc = "release_set"
    /\ jobs' = [jobs EXCEPT
                   !.active = Some(IF jobs.job[j].read - 1 > 0
                                   THEN jobs.job[j].read - 1 ELSE 0),
                   !.job[j] = [AfterRelease(@) EXCEPT !.holds = FALSE]]
    /\ UNCHANGED <<run, units, task, quota, stream>>

\* The last event is taken and the generator returns.
FinishStream(j) ==
    /\ jobs.job[j].pc = "final"
    /\ jobs' = [jobs EXCEPT !.job[j].pc = "ended"]
    /\ UNCHANGED <<run, units, task, quota, stream>>

JobsNext ==
    \E j \in Jobs :
        \/ CheckConcurrentLimitGet(j)
        \/ CheckConcurrentLimitSet(j)
        \/ StartPolling(j)
        \/ CloseAtYield(j)
        \/ PollResult(j)
        \/ PollFunctionTimeout(j)
        \/ PollProgress(j)
        \/ ResumePolling(j)
        \/ CancelledWhilePolling(j)
        \/ PollRaises(j)
        \/ ReleaseJobSlotGet(j)
        \/ ReleaseJobSlotSet(j)
        \/ FinishStream(j)

JobsSpec == JobsInit /\ [][JobsNext]_vars

\* ------------------------------------------------------------------ C25
\* C25 as claimed: however the event stream of a job ends, the slot the job
\* acquired has been released, so that once every job of the IP has ended
\* the counter of the IP is back at 0.
C25_EveryAcquiredSlotReleased ==
    /\ \A j \in Jobs : jobs.job[j].pc = "ended" => ~jobs.job[j].holds
    /\ (\A j \in Jobs : jobs.job[j].pc \in {"ended", "rejected"}) =>
          DictGet(jobs.active, 0) = 0

\* ------------------------------------------------------------------ C26
\* The jobs that are counted in the dict.
Holders(js) == {j \in Jobs : js.job[j].holds}

\* The release_job_slot of a job that holds a slot writes the counter
\* without taking away a slot that another job holds: a counter that
\* covered the holders before the write covers those that are left.
ReleaseFreesOwnSlotOnly ==
    \A j \in Jobs :
        (/\ jobs.job[j].pc = "release_set"
         /\ jobs.job[j].holds
         /\ jobs'.job[j].pc # "release_set") =>
            (DictGet(jobs.active, 0) >= Cardinality(Holders(jobs)) =>
                DictGet(jobs'.active, 0) >= Cardinality(Holders(jobs')))

\* C26 as claimed: whatever happens in event_generator, a disconnect or an
\* exception after the release included, release_job_slot is called at most
\* once for a job, so that the end of one job never frees a slot that
\* another running job of the same IP holds.
C26_ReleasedOnceAndOnlyOwnSlot ==
    /\ [](\A j \in Jobs : jobs.job[j].released <= 1)
    /\ [][ReleaseFreesOwnSlotOnly]_vars

\* ------------------------------------------------------------------ C27
\* C27 as claimed: however the requests of one IP interleave, no more than
\* MAX_CONCURRENT_JOBS_PER_IP of its jobs are running at once.  The jobs
\* counted are those that were let in through the counter; a request let in
\* while the dict could not be reached is left out.
C27_RunningJobsWithinLimit ==
    Cardinality({j \in Jobs : JobRunning(jobs.job[j]) /\ jobs.job[j].holds})
        <= MAX_CONCURRENT_JOBS_PER_IP


\* ============================================= quotas of /api/process
\* The requests of one day at /api/process, from the global check to the
\* check of the concurrent jobs: the anonymous requests come from one IP,
\* the authenticated ones from one user.  The entries of the four dicts are
\* Absent until they are first set.  The get and the set of a daily check
\* are steps of their own, as the dicts are shared between containers.
MAX_RUNS_PER_DAY_ANONYMOUS == 2

MAX_RUNS_PER_DAY_AUTHENTICATED == 20

MAX_GLOBAL_RUNS_PER_DAY == 50

\* One request more than an anonymous IP may run on a day.
ProcessRequests == 1..(MAX_RUNS_PER_DAY_ANONYMOUS + 1)

UserIds == {None, "user"}

\* Who sends the requests: the IP alone, or the IP and, with the last
\* request, a user who has signed in.
RequestUsers ==
    {[r \in ProcessRequests |-> None],
     [r \in ProcessRequests |->
         IF r = MAX_RUNS_PER_DAY_ANONYMOUS + 1 THEN "user" ELSE None]}

\* A request at the start of process_endpoint.  consumed: the counters the
\* request has raised; rejected_by: the check that turned it away.
NewRequest(user_id) ==
    [pc |-> "global", user_id |-> user_id, read |-> 0, consumed |-> {},
     rejected_by |-> None]

\* The counts a day can have reached when the requests arrive: nothing yet,
\* or one run short of a limit.
CountsBefore(limit) == {0, limit - 1}

EntryOf(count) == IF count = 0 THEN Absent ELSE Some(count)

QuotaInit ==
    /\ NoRun
    /\ plan = Absent
    /\ clip = Absent
    /\ agg = Absent
    /\ norm = Absent
    /\ task = Absent
    /\ jobs = Absent
    /\ stream = Absent
    /\ \E user_ids \in RequestUsers,
          global_before \in CountsBefore(MAX_GLOBAL_RUNS_PER_DAY),
          anonymous_before \in {0, MAX_RUNS_PER_DAY_ANONYMOUS},
          active_before \in {0, MAX_CONCURRENT_JOBS_PER_IP} :
          quota = [global |-> EntryOf(global_before),
                   anonymous |-> EntryOf(anonymous_before),
                   user |-> Absent,
                   active |-> EntryOf(active_before),
                   global_before |-> global_before,
                   anonymous_before |-> anonymous_before,
                   request |-> [r \in ProcessRequests |-> NewRequest(user_ids[r])]]

Rejected(request, check) ==
    [request EXCEPT !.pc = "rejected", !.rejected_by = check, !.read = 0]

\* check_global_rate_limit, lines 671-674 and 677-679: the get.  An
\* unreachable dict lets the request through.
CheckGlobalRateLimitGet(r) ==
    /\ quota.request[r].pc = "global"
    /\ \E dict_available \in BOOLEAN :
          LET count == DictGet(quota.global, 0)
          IN  quota' = [quota EXCEPT !.request[r] =
                  IF ~dict_available THEN [@ EXCEPT !.pc = "daily"]
                  ELSE IF count >= MAX_GLOBAL_RUNS_PER_DAY
                  THEN Rejected(@, "global")
                  ELSE [@ EXCEPT !.pc = "global_set", !.read = count]]
    /\ UNCHANGED <<run, units, task, jobs, stream>>

\* check_global_rate_limit, lines 675-676: the set.
CheckGlobalRateLimitSet(r) ==
    /\ quota.request[r].pc = "global_set"
    /\ quota' = [quota EXCEPT
                    !.global = Some(quota.request[r].read + 1),
                    !.request[r] = [@ EXCEPT !.pc = "daily", !.read = 0,
                                             !.consumed = @ \cup {"global"}]]
    /\ UNCHANGED <<run, units, task, jobs, stream>>

\* check_anonymous_rate_limit, lines 601-604 and 607-609: the get, for a
\* request without user_id (process_endpoint, lines 888-899).
CheckAnonymousRateLimitGet(r) ==
    /\ quota.request[r].pc = "daily"
    /\ quota.request[r].user_id = None
    /\ \E dict_available \in BOOLEAN :
          LET count == DictGet(quota.anonymous, 0)
          IN  quota' = [quota EXCEPT !.request[r] =
                  IF ~dict_available THEN [@ EXCEPT !.pc = "validate"]
                  ELSE IF count >= MAX_RUNS_PER_DAY_ANONYMOUS
                  THEN Rejected(@, "per_ip")
                  ELSE [@ EXCEPT !.pc = "daily_set", !.read = count]]
    /\ UNCHANGED <<run, units, task, jobs, stream>>

\* check_anonymous_rate_limit, lines 605-606: the set.
CheckAnonymousRateLimitSet(r) ==
    /\ quota.request[r].pc = "daily_set"
    /\ quota.request[r].user_id = None
    /\ quota' = [quota EXCEPT
                    !.anonymous = Some(quota.request[r].read + 1),
                    !.request[r] = [@ EXCEPT !.pc = "validate", !.read = 0,
                                             !.consumed = @ \cup {"daily"}]]
    /\ UNCHANGED <<run, units, task, jobs, stream>>

\* check_user_rate_limit, lines 623-626 and 629-631: the get, for a request
\* with a user_id (process_endpoint, lines 876-887).
CheckUserRateLimitGet(r) ==
    /\ quota.request[r].pc = "daily"
    /\ quota.request[r].user_id # None
    /\ \E dict_available \in BOOLEAN :
          LET count == DictGet(quota.user, 0)
          IN  quota' = [quota EXCEPT !.request[r] =
                  IF ~dict_available THEN [@ EXCEPT !.pc = "validate"]
                  ELSE IF count >= MAX_RUNS_PER_DAY_AUTHENTICATED
                  THEN Rejected(@, "per_user")
                  ELSE [@ EXCEPT !.pc = "daily_set", !.read = count]]
    /\ UNCHANGED <<run, units, task, jobs, stream>>

\* check_user_rate_limit, lines 627-628: the set.
CheckUserRateLimitSet(r) ==
    /\ quota.request[r].pc = "daily_set"
    /\ quota.request[r].user_id # None
    /\ quota' = [quota EXCEPT
                    !.user = Some(quota.request[r].read + 1),
                    !.request[r] = [@ EXCEPT !.pc = "validate", !.read = 0,
                                             !.consumed = @ \cup {"daily"}]]
    /\ UNCHANGED <<run, units, task, jobs, stream>>

\* process_endpoint, lines 901-924: the filename, the extension and the
\* size of the upload; the first that fails raises HTTPException 400.
ValidateUpload(r) ==
    /\ quota.request[r].pc = "validate"
    /\ \E has_filename \in BOOLEAN, valid_extension \in BOOLEAN,
          within_max_size \in BOOLEAN :
          quota' = [quota EXCEPT !.request[r] =
              IF ~has_filename THEN Rejected(@, "filename")
              ELSE IF ~valid_extension THEN Rejected(@, "extension")
              ELSE IF ~within_max_size THEN Rejected(@, "size")
              ELSE [@ EXCEPT !.pc = "concurrent"]]
    /\ UNCHANGED <<run, units, task, jobs, stream>>

\* process_endpoint, lines 926-935: check_concurrent_limit on the entry of
\* the client IP, here in one step.
AcquireJobSlot(r) ==
    /\ quota.request[r].pc = "concurrent"
    /\ LET active == DictGet(quota.active, 0)
       IN  quota' =
               IF active >= MAX_CONCURRENT_JOBS_PER_IP
               THEN [quota EXCEPT !.request[r] = Rejected(@, "concurrent")]
               ELSE [quota EXCEPT
                        !.active = Some(active + 1),
                        !.request[r] = [@ EXCEPT !.pc = "accepted",
                                                 !.consumed = @ \cup {"slot"}]]
    /\ UNCHANGED <<run, units, task, jobs, stream>>

QuotaNext ==
    \E r \in ProcessRequests :
        \/ CheckGlobalRateLimitGet(r)
        \/ CheckGlobalRateLimitSet(r)
        \/ CheckAnonymousRateLimitGet(r)
        \/ CheckAnonymousRateLimitSet(r)
        \/ CheckUserRateLimitGet(r)
        \/ CheckUserRateLimitSet(r)
        \/ ValidateUpload(r)
        \/ AcquireJobSlot(r)

QuotaSpec == QuotaInit /\ [][QuotaNext]_vars

\* The requests that have passed a check by raising its counter.
Consumers(counter, user_ids) ==
    {r \in ProcessRequests : /\ counter \in quota.request[r].consumed
                      /\ quota.request[r].user_id \in user_ids}

\* ------------------------------------------------------------------ C28
\* C28 as claimed: however the requests interleave, the requests of one
\* anonymous IP that pass the daily check on one day are at most
\* MAX_RUNS_PER_DAY_ANONYMOUS, and the requests that pass the global check
\* are at most MAX_GLOBAL_RUNS_PER_DAY.  The requests counted are those
\* that passed by raising the counter, on top of those the day had counted
\* before.
C28_PassesWithinDailyLimits ==
    /\ quota.anonymous_before + Cardinality(Consumers("daily", {None}))
          <= MAX_RUNS_PER_DAY_ANONYMOUS
    /\ quota.global_before + Cardinality(Consumers("global", UserIds))
          <= MAX_GLOBAL_RUNS_PER_DAY

\* ------------------------------------------------------------------ C29
\* C29 as claimed: a request that is rejected, by whichever check, has
\* raised no counter: no global run, no daily run of its user or IP and no
\* job slot.
C29_RejectedRequestConsumesNothing ==
    \A r \in ProcessRequests :
        quota.request[r].pc = "rejected" => quota.request[r].consumed = {}

\* ========================================= progress of one job's stream
\* One job: process_file_task writing progress.json, and event_generator
\* sending the initial event, the fake events and the events it computes
\* from the file.  progress is the percentage of the last event sent before
\* the terminal one.
STAGE_WEIGHTS ==
    ("upload" :> 1) @@ ("geometry_input" :> 2) @@ ("layer_querying" :> 92) @@
    ("map_generation" :> 2) @@ ("report_generation" :> 2) @@ ("blob_upload" :> 1)

stage_order ==
    <<"upload", "geometry_input", "layer_querying", "map_generation",
      "report_generation", "blob_upload">>

\* The 'progress' of the four fake events, in the order they are sent.
fake_progress_stages == <<1, 2, 3, 4>>

\* round(num / den) as Python rounds a float: to the nearest integer, a tie
\* to the even one.
Round(num, den) ==
    LET q == num \div den
        r == num % den
    IN  IF 2 * r < den THEN q
        ELSE IF 2 * r > den THEN q + 1
        ELSE IF q % 2 = 0 THEN q ELSE q + 1

\* The weights of the stages before position idx of stage_order.
RECURSIVE CompletedWeight(_)
CompletedWeight(idx) ==
    IF idx <= 1 THEN 0
    ELSE STAGE_WEIGHTS[stage_order[idx - 1]] + CompletedWeight(idx - 1)

\* What emit_progress writes, as far as calculate_weighted_progress reads
\* it: the stage and the two counts.
ProgressData(stage, completed, total) ==
    [stage |-> stage, completed_layers |-> completed, total_layers |-> total]

calculate_weighted_progress(progress_data) ==
    LET stage == progress_data.stage
        known == {idx \in DOMAIN stage_order : stage_order[idx] = stage}
        current_stage_idx ==
            IF known # {} THEN CHOOSE idx \in known : TRUE
            ELSE IF stage = "layer_query" THEN 3
            ELSE 0
        weight == STAGE_WEIGHTS[stage_order[current_stage_idx]]
        completed_weight == CompletedWeight(current_stage_idx)
        completed == progress_data.completed_layers
        total == progress_data.total_layers
    IN  IF current_stage_idx = 0 THEN 5
        ELSE IF total > 0
        THEN Min(Round(completed_weight * total + completed * weight, total), 100)
        ELSE Min(Round(2 * completed_weight + weight, 2), 100)

\* The writes of process_file_task in the order of its code, for a config
\* of n layers: lines 295, 300, 308, the layer_callback of 303-305 after
\* each layer, then 324-364, 381, 394 and 474.
LayerQueryEvents(n) == [c \in 1..n |-> ProgressData("layer_query", c, n)]

Emits(n) ==
    <<ProgressData("geometry_input", 0, 1),
      ProgressData("geometry_input", 1, 1),
      ProgressData("layer_querying", 0, n)>>
    \o LayerQueryEvents(n) \o
    <<ProgressData("map_generation", 0, 2),
      ProgressData("map_generation", 1, 2),
      ProgressData("map_generation", 2, 2),
      ProgressData("report_generation", 0, 2),
      ProgressData("report_generation", 1, 2),
      ProgressData("report_generation", 2, 2),
      ProgressData("blob_upload", 0, 3),
      ProgressData("blob_upload", 1, 3),
      ProgressData("blob_upload", 2, 3),
      ProgressData("blob_upload", 3, 3)>>

StreamInit ==
    /\ NoRun
    /\ plan = Absent
    /\ clip = Absent
    /\ agg = Absent
    /\ norm = Absent
    /\ task = Absent
    /\ jobs = Absent
    /\ quota = Absent
    /\ \E layers \in 0..MaxLayers, takes_callback \in BOOLEAN :
          stream = [layers |-> layers,
                    takes_callback |-> takes_callback,
                    pc |-> "initial",
                    fake_idx |-> 0,
                    last_progress_data |-> Absent,
                    progress |-> Absent,
                    emitted |-> 0,
                    progress_file |-> Absent,
                    task_done |-> FALSE]

\* event_generator, line 947: the initial event; the task is spawned when
\* the generator is resumed (951-960).
SendInitialEvent ==
    /\ stream.pc = "initial"
    /\ stream' = [stream EXCEPT !.pc = "fake", !.progress = Some(1)]
    /\ UNCHANGED <<run, units, task, jobs, quota>>

\* Lines 980-990: the next fake event, while progress.json does not exist.
SendFakeProgress ==
    /\ stream.pc = "fake"
    /\ stream.fake_idx < Len(fake_progress_stages)
    /\ stream.progress_file = Absent
    /\ stream' = [stream EXCEPT
                     !.fake_idx = @ + 1,
                     !.progress = Some(fake_progress_stages[stream.fake_idx + 1])]
    /\ UNCHANGED <<run, units, task, jobs, quota>>

\* Lines 992-994: the fake events are used up or progress.json exists.
SwitchToPolling ==
    /\ stream.pc = "fake"
    /\ \/ stream.fake_idx >= Len(fake_progress_stages)
       \/ stream.progress_file # Absent
    /\ stream' = [stream EXCEPT !.pc = "polling"]
    /\ UNCHANGED <<run, units, task, jobs, quota>>

\* Lines 1044-1075: the task is still running, progress.json exists and
\* differs from what was last sent; its weighted progress is sent.
SendRealProgress ==
    /\ stream.pc = "polling"
    /\ ~stream.task_done
    /\ stream.progress_file # Absent
    /\ stream.progress_file # stream.last_progress_data
    /\ stream' = [stream EXCEPT
                     !.last_progress_data = stream.progress_file,
                     !.progress =
                         Some(calculate_weighted_progress(stream.progress_file[1].data))]
    /\ UNCHANGED <<run, units, task, jobs, quota>>

\* Lines 1001-1021: handle.get returns the result; the terminal event is
\* sent and the stream ends.
SendTerminalEvent ==
    /\ stream.pc = "polling"
    /\ stream.task_done
    /\ stream' = [stream EXCEPT !.pc = "done"]
    /\ UNCHANGED <<run, units, task, jobs, quota>>

\* process_all_layers as it is under src takes no progress_callback, so the
\* call of line 309 raises after the write of line 308; one that takes it
\* reports every layer.
LastEmit ==
    IF stream.takes_callback THEN Len(Emits(stream.layers)) ELSE 3

\* emit_progress, lines 264-291: the next write of the task, with its
\* timestamp, here the ordinal of the write.  A write that fails is logged
\* and the task goes on.
EmitProgress ==
    /\ stream.pc # "initial"
    /\ ~stream.task_done
    /\ stream.emitted < LastEmit
    /\ \E written \in BOOLEAN :
          stream' = [stream EXCEPT
              !.emitted = @ + 1,
              !.progress_file =
                  IF written
                  THEN Some([data |-> Emits(stream.layers)[stream.emitted + 1],
                             timestamp |-> stream.emitted + 1])
                  ELSE @]
    /\ UNCHANGED <<run, units, task, jobs, quota>>

\* Lines 370-397: an upload to the blob store raises; the except goes on to
\* the write of line 474.
BlobUploadRaises ==
    /\ ~stream.task_done
    /\ stream.takes_callback
    /\ stream.emitted \in {LastEmit - 3, LastEmit - 2}
    /\ stream' = [stream EXCEPT !.emitted = LastEmit - 1]
    /\ UNCHANGED <<run, units, task, jobs, quota>>

\* Lines 507-528: the task raises, before its first write (240-255) or
\* between two writes, and returns its failure.
TaskRaises ==
    /\ stream.pc # "initial"
    /\ ~stream.task_done
    /\ stream.takes_callback => stream.emitted < LastEmit
    /\ stream' = [stream EXCEPT !.task_done = TRUE]
    /\ UNCHANGED <<run, units, task, jobs, quota>>

\* Lines 476-505: the task returns its result.
TaskReturns ==
    /\ ~stream.task_done
    /\ stream.takes_callback
    /\ stream.emitted = LastEmit
    /\ stream' = [stream EXCEPT !.task_done = TRUE]
    /\ UNCHANGED <<run, units, task, jobs, quota>>

StreamNext ==
    \/ SendInitialEvent
    \/ SendFakeProgress
    \/ SwitchToPolling
    \/ SendRealProgress
    \/ SendTerminalEvent
    \/ EmitProgress
    \/ BlobUploadRaises
    \/ TaskRaises
    \/ TaskReturns

StreamSpec == StreamInit /\ [][StreamNext]_vars

\* ------------------------------------------------------------------ C30
\* An event before the terminal one is sent with a progress that is not
\* below the progress of the event before it.
ProgressNonDecreasing ==
    (stream.progress # Absent /\ stream'.progress # Absent) =>
        stream'.progress[1] >= stream.progress[1]

\* C30 as claimed: the progress percentages a job's stream sends before its
\* terminal event stay within 0..100 and never decrease, from the initial
\* event over the fake events to the events computed from the task's
\* stages.
C30_ProgressNonDecreasingWithinRange ==
    /\ [](stream.progress # Absent => stream.progress[1] \in 0..100)
    /\ [][ProgressNonDecreasing]_vars

====
